---- MODULE Spec2Model ----
(***************************************************************************)
(* Model of the "summer" walking simulator (clashbyte/summer): the frame   *)
(* loop (Core/Engine), the sprite instancer (Sprites), the map geometry    *)
(* builder (World.triangulateMap) and the player solver (Player).          *)
(*                                                                         *)
(* Lengths are fixed-point integers: one grid cell = Unit (10000), so the  *)
(* player radius 0.2 is 2000 and radius * 1.001 is 2002.  Quarter-turn     *)
(* rotations use exact sines and cosines (0, 1, -1).                       *)
(***************************************************************************)
EXTENDS Integers, Sequences, FiniteSets, TLC

VARIABLES
  \* ---- Core / Engine ----
  initStage,      \* position of the async Engine.init
  rafActive,      \* a requestAnimationFrame callback is scheduled
  engMap,         \* Engine.Map is set
  sky,            \* Engine.sky is set
  sprites,        \* Engine.sprites is set
  fences,         \* Engine.fences is set
  shadowmap,      \* Engine.shadowmap is set (Shadowmap.Texture allocated)
  player,         \* Engine.player is set
  loaded,         \* Engine.loaded
  shadowPasses,   \* number of executions of Engine.renderShadow
  frames,         \* number of executed frameUpdate callbacks
  lastFrame,      \* what the latest frameUpdate callback did
  \* ---- Sprites ----
  defs,           \* sprite templates as loaded (SpriteDef[])
  templates,      \* per template: currentFrame, frameTime
  lit,            \* per sprite entry: lit flag ("undefined", "true", "false")
  queries,        \* pending occlusion queries
  vao,            \* instance buffers uploaded by the latest rebuildVao
  billboardCount, \* Sprites.billboardCount
  lastReads,      \* QUERY_RESULT reads of the latest updateQueries
  lastDraw,       \* per entry: tint used by the latest instanced draw
  litBefore,      \* per entry: lit flag when the latest frame began
  \* ---- World ----
  cells,          \* World.MapCells
  entities,       \* World.MapEntities
  colliders,      \* Player.Colliders
  mesh,           \* result of World.triangulateMap
  mapFile,        \* the map file MapReader.parse reads
  \* ---- Player ----
  position,       \* Player.position <<x, y, z>>
  speed,          \* Player.speed <<x, z>>
  angleX,         \* Player.angleX (yaw, degrees)
  angleY,         \* Player.angleY (pitch, degrees)
  crashed,        \* Player.update threw in its latest call
  bob,            \* Player.bob (camera bobbing phase, 1/10000 rad)
  stepPlayed,     \* Player.stepPlayed
  lastStep,       \* what the latest Player.update did about the step sound
  ready,          \* Soundscape.ready
  loading,        \* Soundscape.loading
  \* ---- Controls ----
  controls,       \* the static fields of Controls, and the pointer lock
  lastInput,      \* what the latest Engine.update read from Controls
  \* ---- WebGL ----
  shaders,        \* per Shader object: what its constructor left in it
  gpu,            \* live WebGL objects of the context, counted by kind
  lastBind,       \* what the latest Engine.render did with each Shader
  fragment,       \* one fragment of a color pass on its way through a shader
  \* ---- Camera ----
  camera,         \* the static fields of Camera
  lastCamera,     \* what the latest call of Camera did
  glState,        \* the enable state of the WebGL context, and what it was at
                  \* the start of the latest color pass
  sound,          \* what Soundscape.checkBuffers has created, and its calls that
                  \* are waiting for the downloads
  \* ---- Zones ----
  zones,          \* Zones.zones
  zoneCalls,      \* per zone: the callbacks run by the latest Zones.update, and
                  \* the latest callback run at all
  pc              \* step of the pure-function specifications

engineVars == <<initStage, rafActive, engMap, sky, sprites, fences, shadowmap,
                player, loaded, shadowPasses, frames, lastFrame>>
spriteVars == <<defs, templates, lit, queries, vao, billboardCount, lastReads,
                lastDraw, litBefore>>
worldVars  == <<cells, entities, colliders, mesh>>
stepVars   == <<bob, stepPlayed, lastStep, ready, loading>>
playerVars == <<position, speed, angleX, angleY, crashed, stepVars>>
inputVars  == <<controls, lastInput>>
gpuVars    == <<shaders, gpu, lastBind, fragment>>
cameraVars == <<camera, lastCamera>>
zoneVars   == <<zones, zoneCalls>>
unitVars   == <<cameraVars, zoneVars, glState, sound>>
vars == <<engineVars, spriteVars, worldVars, playerVars, inputVars, gpuVars, unitVars,
          mapFile, pc>>

(***************************************************************************)
(* Bounds of the model                                                     *)
(***************************************************************************)
MaxFrames == 2       \* frame callbacks explored by the frame-loop spec
MaxOdd == 2          \* cells that differ from the base grid (builder inputs)
MaxTicks == 3        \* Player.update calls explored by the player spec
MaxStairs == 2       \* stairs in a world of the floor-snapping spec

(***************************************************************************)
(* Program constants                                                       *)
(***************************************************************************)
Unit == 10000        \* one grid cell
Half == 5000         \* 0.5
Radius == 2000       \* Player.collide radius 0.2
Height == 3000       \* Player.collide height 0.3
Lookahead == 5       \* fallback boundary: cx + dir * 5
MoveAccel == 120     \* moveAccel 0.012
MoveMaxSpeed == 400  \* moveMaxSpeed 0.04
BobRate == 2200      \* bob advance per unit of delta: 0.22
Pi == 31416          \* Math.PI

Null == "null"

\* ---- small arithmetic helpers ----
Abs(n) == IF n < 0 THEN -n ELSE n
Sign(n) == IF n > 0 THEN 1 ELSE IF n < 0 THEN -1 ELSE 0
Min(a, b) == IF a < b THEN a ELSE b
Max(a, b) == IF a > b THEN a ELSE b
\* Math.floor(v + 0.5) of a fixed-point length, as a cell index
CellOf(v) == (v + Half) \div Unit
\* division rounding toward zero
DivZ(a, b) == IF a >= 0 THEN a \div b ELSE -((-a) \div b)

\* sin and cos of side * 90 degrees
Sin90(s) == CASE s % 4 = 0 -> 0 [] s % 4 = 1 -> 1 [] s % 4 = 2 -> 0 [] OTHER -> -1
Cos90(s) == CASE s % 4 = 0 -> 1 [] s % 4 = 1 -> 0 [] s % 4 = 2 -> -1 [] OTHER -> 0


(***************************************************************************)
(* Texture atlases (TextureAtlas) and cells (MapReader.Cell)               *)
(***************************************************************************)
\* Resources.Textures: map textures, a 100 x 100 image of four 50 x 50 frames
Textures ==
  [width |-> 100, height |-> 100,
   frames |-> [n \in {"brick", "grass", "tile", "step"} |->
     CASE n = "brick" -> [x |-> 0,  y |-> 0,  width |-> 50, height |-> 50]
       [] n = "grass" -> [x |-> 50, y |-> 0,  width |-> 50, height |-> 50]
       [] n = "tile"  -> [x |-> 0,  y |-> 50, width |-> 50, height |-> 50]
       [] OTHER       -> [x |-> 50, y |-> 50, width |-> 50, height |-> 50]]]

\* Resources.SpriteTextures: billboard frames; "ghost" has no atlas entry
SpriteTextures ==
  [width |-> 100, height |-> 100,
   frames |-> [n \in {"tree1", "tree2", "bush"} |->
     CASE n = "tree1" -> [x |-> 0,  y |-> 0,  width |-> 50, height |-> 100]
       [] n = "tree2" -> [x |-> 50, y |-> 0,  width |-> 50, height |-> 50]
       [] OTHER       -> [x |-> 50, y |-> 50, width |-> 50, height |-> 50]]]

\* atlas rectangle -> UV in thousandths, with the 0.001 inset of the map
\* builder: su = x / texW + 0.001, eu = width / texW + su - 0.002
AtlasUV(atlas, name) ==
  LET tex == atlas.frames[name]
      su == (tex.x * 1000) \div atlas.width + 1
      sv == (tex.y * 1000) \div atlas.height + 1
  IN [su |-> su, sv |-> sv,
      eu |-> (tex.width * 1000) \div atlas.width + su - 2,
      ev |-> (tex.height * 1000) \div atlas.height + sv - 2]

WallCell == [wall |-> "brick", floor |-> Null, ceil |-> Null]
OpenKinds == {[wall |-> Null, floor |-> fl, ceil |-> ce] :
                fl \in {Null, "grass"}, ce \in {Null, "tile"}}
CellKinds == {WallCell} \cup OpenKinds

NumFloors(cs) == Cardinality(DOMAIN cs)
NumRows(cs) == Cardinality(DOMAIN cs[0])
NumCols(cs) == Cardinality(DOMAIN cs[0][0])
\* cells[fl][row][col] of JavaScript: undefined outside the arrays
HasCell(cs, fl, row, col) ==
  /\ fl \in DOMAIN cs
  /\ row \in DOMAIN cs[fl]
  /\ col \in DOMAIN cs[fl][row]
IsWallAt(cs, fl, row, col) ==
  HasCell(cs, fl, row, col) /\ cs[fl][row][col].wall # Null

(***************************************************************************)
(* World.triangulateMap                                                    *)
(***************************************************************************)
EmptyMesh == [verts |-> <<>>, normals |-> <<>>, uv |-> <<>>, indices |-> <<>>,
              vertCount |-> 0]

QuadIndices(vc) == <<vc, vc + 2, vc + 1, vc + 1, vc + 2, vc + 3>>

PushQuad(m, v, n, t) ==
  [verts |-> m.verts \o v,
   normals |-> m.normals \o <<n, n, n, n>>,
   uv |-> m.uv \o t,
   indices |-> m.indices \o QuadIndices(m.vertCount),
   vertCount |-> m.vertCount + 4]

\* a builder that emits no wall faces
NoWallFace(cs, m, floor, y, x, i) == m

\* the wall face of open cell (floor, y, x) toward its neighbour i
WallFace(cs, m, floor, y, x, i) ==
  LET xoff == IF i = 1 THEN 1 ELSE IF i = 3 THEN -1 ELSE 0
      yoff == IF i = 0 THEN -1 ELSE IF i = 2 THEN 1 ELSE 0
      width == NumCols(cs)
      height == NumRows(cs)
  IN IF x + xoff < 0 \/ x + xoff >= width \/ y + yoff < 0 \/ y + yoff >= height
     THEN m
     ELSE LET oc == cs[floor][y + yoff][x + xoff] IN
       IF oc.wall = Null THEN m
       ELSE LET sin == Sin90(i)
                cos == Cos90(i)
                v1x == -Half * cos + Half * sin + x * Unit
                v1y == -Half * sin - Half * cos + y * Unit
                v2x == Half * cos + Half * sin + x * Unit
                v2y == Half * sin - Half * cos + y * Unit
                vnx == -Half * sin
                vny == Half * cos
                t == AtlasUV(Textures, oc.wall)
            IN PushQuad(m,
                 << <<v1x, floor * Unit + Half, v1y>>, <<v2x, floor * Unit + Half, v2y>>,
                    <<v1x, floor * Unit - Half, v1y>>, <<v2x, floor * Unit - Half, v2y>> >>,
                 <<vnx, 0, vny>>,
                 << <<t.su, t.sv>>, <<t.eu, t.sv>>, <<t.su, t.ev>>, <<t.eu, t.ev>> >>)

FloorQuad(m, floor, y, x, name) ==
  LET t == AtlasUV(Textures, name)
      yy == floor * Unit - Half
  IN PushQuad(m,
       << <<x * Unit - Half, yy, y * Unit - Half>>, <<x * Unit + Half, yy, y * Unit - Half>>,
          <<x * Unit - Half, yy, y * Unit + Half>>, <<x * Unit + Half, yy, y * Unit + Half>> >>,
       <<0, Unit, 0>>,
       << <<t.su, t.ev>>, <<t.eu, t.ev>>, <<t.su, t.sv>>, <<t.eu, t.sv>> >>)

\* a builder that emits no ceilings
NoCeilQuad(m, floor, y, x, name) == m

CeilQuad(m, floor, y, x, name) ==
  LET t == AtlasUV(Textures, name)
      yy == floor * Unit + Half
  IN PushQuad(m,
       << <<x * Unit - Half, yy, y * Unit + Half>>, <<x * Unit + Half, yy, y * Unit + Half>>,
          <<x * Unit - Half, yy, y * Unit - Half>>, <<x * Unit + Half, yy, y * Unit - Half>> >>,
       <<0, -Unit, 0>>,
       << <<t.su, t.sv>>, <<t.eu, t.sv>>, <<t.su, t.ev>>, <<t.eu, t.ev>> >>)

\* body of the static-geometry loop for one cell
StaticCell(cs, m, floor, y, x) ==
  LET c == cs[floor][y][x] IN
  IF c.wall # Null THEN m
  ELSE LET m0 == WallFace(cs, m, floor, y, x, 0)
           m1 == WallFace(cs, m0, floor, y, x, 1)
           m2 == WallFace(cs, m1, floor, y, x, 2)
           m3 == WallFace(cs, m2, floor, y, x, 3)
           m4 == IF c.floor # Null THEN FloorQuad(m3, floor, y, x, c.floor) ELSE m3
       IN IF c.ceil # Null THEN CeilQuad(m4, floor, y, x, c.ceil) ELSE m4

\* a builder that caps every wall cell that has no wall above it
CoverUnderFloor(cs, m, floor, y, x) ==
  LET c == cs[floor][y][x]
      needFlat == floor = NumFloors(cs) - 1 \/ cs[floor + 1][y][x].wall = Null
      yy == floor * Unit + Half
  IN IF c.wall # Null /\ needFlat
     THEN PushQuad(m,
            << <<x * Unit - Half, yy, y * Unit - Half>>, <<x * Unit + Half, yy, y * Unit - Half>>,
               <<x * Unit - Half, yy, y * Unit + Half>>, <<x * Unit + Half, yy, y * Unit + Half>> >>,
            <<0, Unit, 0>>,
            << <<0, 0>>, <<0, 0>>, <<0, 0>>, <<0, 0>> >>)
     ELSE m

\* body of the cover-face loop for one cell
CoverCell(cs, m, floor, y, x) ==
  LET c == cs[floor][y][x]
      needFlat ==
        IF floor = NumFloors(cs) - 1 THEN TRUE
        ELSE LET uc == cs[floor + 1][y][x] IN uc.wall = Null /\ uc.floor = Null
      yy == floor * Unit + Half
  IN IF c.wall # Null /\ needFlat
     THEN PushQuad(m,
            << <<x * Unit - Half, yy, y * Unit - Half>>, <<x * Unit + Half, yy, y * Unit - Half>>,
               <<x * Unit - Half, yy, y * Unit + Half>>, <<x * Unit + Half, yy, y * Unit + Half>> >>,
            <<0, Unit, 0>>,
            << <<0, 0>>, <<0, 0>>, <<0, 0>>, <<0, 0>> >>)
     ELSE m

\* vec3.rotateY(v, [0,0,0], -side * PI / 2) of gl-matrix
RotateYNeg(v, side) ==
  LET sin == -Sin90(side)
      cos == Cos90(side)
  IN <<v[3] * sin + v[1] * cos, v[2], v[3] * cos - v[1] * sin>>

StairBase ==
  << <<-Half, Half, -Half>>, <<Half, Half, -Half>>, <<-Half, 0, Half>>, <<Half, 0, Half>>,
     <<-Half, 0, Half>>, <<Half, 0, Half>>, <<-Half, -Half, 3 * Half>>, <<Half, -Half, 3 * Half>> >>

StairIndices(vc) ==
  <<vc, vc + 2, vc + 1, vc + 1, vc + 2, vc + 3, vc, vc + 1, vc + 2, vc + 1, vc + 3, vc + 2>>

\* body of the stair loop for one entity
StairMesh(m, stair) ==
  IF stair.type # "Stair" THEN m
  ELSE LET t == AtlasUV(Textures, stair.id)
           up == <<0, Unit, 0>>
           tt == << <<t.su, t.sv>>, <<t.eu, t.sv>>, <<t.su, t.ev>>, <<t.eu, t.ev>> >>
           vl == [k \in 1..8 |->
                    LET v == RotateYNeg(StairBase[k], stair.side)
                    IN <<v[1] + stair.x * Unit, v[2] + stair.y * Unit, v[3] + stair.z * Unit>>]
       IN [verts |-> m.verts \o vl,
           normals |-> m.normals \o [k \in 1..8 |-> up],
           uv |-> m.uv \o tt \o tt,
           indices |-> m.indices \o StairIndices(m.vertCount) \o StairIndices(m.vertCount + 4),
           vertCount |-> m.vertCount + 8]

\* end of a builder loop after n steps.  A mesh never has a negative vertex
\* count; the second test only forces the evaluation of the mesh built so far at
\* each step instead of nesting the steps unevaluated.
LoopDone(k, n, m) == k >= n \/ m.vertCount < 0

RECURSIVE StaticLoop(_, _, _)
StaticLoop(cs, k, m) ==
  LET w == NumCols(cs)
      h == NumRows(cs)
  IN IF LoopDone(k, NumFloors(cs) * h * w, m) THEN m
     ELSE StaticLoop(cs, k + 1, StaticCell(cs, m, k \div (h * w), (k \div w) % h, k % w))

RECURSIVE StairLoop(_, _, _)
StairLoop(ents, k, m) ==
  IF LoopDone(k, Len(ents) + 1, m) THEN m ELSE StairLoop(ents, k + 1, StairMesh(m, ents[k]))

RECURSIVE CoverLoop(_, _, _)
CoverLoop(cs, k, m) ==
  LET w == NumCols(cs)
      h == NumRows(cs)
  IN IF LoopDone(k, NumFloors(cs) * h * w, m) THEN m
     ELSE CoverLoop(cs, k + 1, CoverCell(cs, m, k \div (h * w), (k \div w) % h, k % w))

triangulateMap(cs, ents) ==
  LET m == CoverLoop(cs, 0, StairLoop(ents, 1, StaticLoop(cs, 0, EmptyMesh)))
  IN [verts |-> m.verts, normals |-> m.normals, uv |-> m.uv, indices |-> m.indices,
      indexCount |-> Len(m.indices)]

(***************************************************************************)
(* Player.collide and Player.putOnFloor                                    *)
(***************************************************************************)
\* CollisionBox: position <<x, y, z>> (centre), size <<w, h, d>> (full extents)
Box(p, sz) == [position |-> p, size |-> sz]

\* the grid scan of one axis: is a wall found in the column/row next to the
\* player's cell c0 (c0 + dir), within the lateral cells and the floors?
\* axis = 1: X step, rows startCell..endCell of column c0 + dir
\* axis = 3: Z step, columns startCell..endCell of row c0 + dir
GridHit(cs, axis, c0, dir, lateral, pf) ==
  LET startCell == (lateral + Half - Radius) \div Unit
      endCell == (lateral + Half + Radius) \div Unit
      startFloor == Max((pf + Half - Height) \div Unit, 0)
      endFloor == Max((pf + Half + Height) \div Unit, 0)
  IN \E fl \in startFloor..endFloor : \E x \in startCell..endCell :
       IF axis = 1 THEN IsWallAt(cs, fl, x, c0 + dir)
                   ELSE IsWallAt(cs, fl, c0 + dir, x)

\* a grid scan that looks at every cell up to the fallback distance and
\* takes the boundary of the first wall on the way
ScanNearest(cs, axis, c0, dir, lateral, pf) ==
  LET hits == {n \in 1..Lookahead : GridHit(cs, axis, c0 + dir * (n - 1), dir, lateral, pf)}
      first == CHOOSE n \in hits : \A m \in hits : n <= m
  IN (IF hits # {}
        THEN c0 + dir * first + (IF dir < 0 THEN 1 ELSE 0)
        ELSE c0 + dir * Lookahead) * Unit - Half

\* nearest grid boundary of one axis, before the boxes are looked at
GridNearest(cs, axis, c0, dir, lateral, pf) ==
  (IF GridHit(cs, axis, c0, dir, lateral, pf)
     THEN c0 + dir + (IF dir < 0 THEN 1 ELSE 0)
     ELSE c0 + dir * Lookahead) * Unit - Half

\* the loop over Player.Colliders of one axis; p is the coordinate on the
\* axis of travel taken for Math.sign, lateral the one on the other axis
RECURSIVE BoxNearest(_, _, _, _, _, _, _, _)
BoxNearest(boxes, k, axis, dir, p, lateral, pf, nearest) ==
  IF k > Len(boxes) THEN nearest
  ELSE LET box == boxes[k]
           other == IF axis = 1 THEN 3 ELSE 1
           b == box.position[axis]
           by == box.position[2]
           bl == box.position[other]
           bs == box.size[axis] \div 2
           bsy == box.size[2] \div 2
           bsl == box.size[other] \div 2
           apart == \/ bl - bsl > lateral + Radius
                    \/ bl + bsl < lateral - Radius
                    \/ by - bsy > pf + Height
                    \/ by + bsy < pf - Height
           n == IF ~apart /\ Sign(b - p) = dir
                  THEN (IF dir > 0 THEN Min(nearest, b - bs * dir)
                                   ELSE Max(nearest, b - bs * dir))
                  ELSE nearest
       IN BoxNearest(boxes, k + 1, axis, dir, p, lateral, pf, n)

\* "try to move player along the axis": the new coordinate and speed
ClampMove(p, v, delta, nearest, dir) ==
  LET np == p + v * delta
  IN IF Abs(nearest - np) < Radius
       THEN [p |-> nearest - dir * (Radius + Radius \div 1000), v |-> 0, clamped |-> TRUE]
       ELSE [p |-> np, v |-> v, clamped |-> FALSE]

\* one axis of Player.collide.  c0 is the player's cell on the axis at the
\* start of collide, p the current coordinate on the axis, signRef the
\* coordinate Math.sign compares the boxes with
AxisStep(cs, boxes, axis, c0, p, signRef, lateral, pf, v, delta) ==
  IF v = 0 THEN [p |-> p, v |-> v, clamped |-> FALSE]
  ELSE LET dir == IF v > 0 THEN 1 ELSE -1
           g == GridNearest(cs, axis, c0, dir, lateral, pf)
           n == BoxNearest(boxes, 1, axis, dir, signRef, lateral, pf, g)
       IN ClampMove(p, v, delta, n, dir)

\* a collide that resolves both axes from the coordinates of before the tick
collideTogether(cs, boxes, pos, spd, delta) ==
  LET pf == pos[2]
      xs == AxisStep(cs, boxes, 1, CellOf(pos[1]), pos[1], pos[1], pos[3], pf, spd[1], delta)
      zs == AxisStep(cs, boxes, 3, CellOf(pos[3]), pos[3], pos[3], pos[1], pf, spd[2], delta)
  IN [position |-> <<xs.p, pf, zs.p>>, speed |-> <<xs.v, zs.v>>,
      clampedX |-> xs.clamped, clampedZ |-> zs.clamped]

collide(cs, boxes, pos, spd, delta) ==
  LET pf == pos[2]
      cx == CellOf(pos[1])
      cy == CellOf(pos[3])
      xs == AxisStep(cs, boxes, 1, cx, pos[1], pos[1], pos[3], pf, spd[1], delta)
      zs == AxisStep(cs, boxes, 3, cy, pos[3], pos[3], xs.p, pf, spd[2], delta)
  IN [position |-> <<xs.p, pf, zs.p>>, speed |-> <<xs.v, zs.v>>,
      clampedX |-> xs.clamped, clampedZ |-> zs.clamped]

\* cell.floor.toLowerCase().includes('grass')
IsGrass(name) == name \in {"grass"}

\* the downward scan of putOnFloor from floor y; cf is the player's floor
RECURSIVE FloorScan(_, _, _, _, _, _)
FloorScan(cs, y, cf, cy, cx, posY) ==
  IF y < 0 THEN [floorPos |-> posY, onGrass |-> FALSE, throws |-> FALSE]
  ELSE IF ~HasCell(cs, y, cy, cx) THEN [floorPos |-> posY, onGrass |-> FALSE, throws |-> TRUE]
  ELSE LET cell == cs[y][cy][cx] IN
    IF cell.wall # Null /\ y < cf
      THEN [floorPos |-> (y + 1) * Unit, onGrass |-> FALSE, throws |-> FALSE]
    ELSE IF cell.floor # Null
      THEN [floorPos |-> y * Unit, onGrass |-> IsGrass(cell.floor), throws |-> FALSE]
    ELSE FloorScan(cs, y - 1, cf, cy, cx, posY)

\* vec2.rotate(out, [dx, dz], [0, 0], side * PI / 2) of gl-matrix
StairLocal(dx, dz, side) ==
  <<dx * Cos90(side) - dz * Sin90(side), dx * Sin90(side) + dz * Cos90(side)>>

InFootprint(p) ==
  p[1] >= -Half /\ p[1] <= Half /\ p[2] >= -Half /\ p[2] <= 3 * Half

\* a stair that is a flat block
FlatRamp(stair, p) == stair.y * Unit + Unit

\* stair.y + 1 - (player[1] + 0.5) / 2.0
RampHeight(stair, p) == stair.y * Unit + Unit - (p[2] + Half) \div 2

\* a putOnFloor without the loop over the stairs
NoStairScan(ents, k, cf, pos, stairPos) == stairPos

\* the loop over the stairs of putOnFloor
RECURSIVE StairScan(_, _, _, _, _)
StairScan(ents, k, cf, pos, stairPos) ==
  IF k > Len(ents) THEN stairPos
  ELSE LET stair == ents[k]
           p == StairLocal(pos[1] - stair.x * Unit, pos[3] - stair.z * Unit, stair.side)
           sp == IF stair.type = "Stair" /\ stair.y <= cf /\ InFootprint(p)
                   THEN RampHeight(stair, p) ELSE stairPos
       IN StairScan(ents, k + 1, cf, pos, sp)

putOnFloor(cs, ents, pos) ==
  LET cf == CellOf(pos[2])
      cx == CellOf(pos[1])
      cy == CellOf(pos[3])
      scan == FloorScan(cs, cf, cf, cy, cx, pos[2])
      stairPos == StairScan(ents, 1, cf, pos, scan.floorPos)
  IN [y |-> Max(scan.floorPos, stairPos), onGrass |-> scan.onGrass, throws |-> scan.throws]

(***************************************************************************)
(* Player.update                                                           *)
(***************************************************************************)
\* JavaScript %: the result has the sign of the dividend
JsMod(a, n) == IF a >= 0 THEN a % n ELSE -((-a) % n)

\* integer square root (vec2.len)
RECURSIVE SqrtSearch(_, _, _)
SqrtSearch(n, lo, hi) ==
  IF lo >= hi THEN lo
  ELSE LET mid == (lo + hi + 1) \div 2
       IN IF mid * mid <= n THEN SqrtSearch(n, mid, hi) ELSE SqrtSearch(n, lo, mid - 1)
ISqrt(n) == SqrtSearch(n, 0, 40000)
Len2(x, y) == ISqrt(x * x + y * y)

\* cos and sin, times 10000, of an angle in degrees.  The yaw starts at -85
\* and the modelled mouse moves turn it by 45 degrees, so the angles met
\* are 40 and 85 plus quarter turns.
TrigBase(a) == IF a % 90 = 40 THEN <<7660, 6428>> ELSE <<872, 9962>>
CosDeg(a) ==
  LET m == a % 360
      b == TrigBase(m)
      q == m \div 90
  IN CASE q = 0 -> b[1] [] q = 1 -> -b[2] [] q = 2 -> -b[1] [] OTHER -> b[2]
SinDeg(a) ==
  LET m == a % 360
      b == TrigBase(m)
      q == m \div 90
  IN CASE q = 0 -> b[2] [] q = 1 -> b[1] [] q = 2 -> -b[2] [] OTHER -> -b[1]

\* Math.pow(0.8, delta) times 10000, for a whole delta
RECURSIVE Pow08(_)
Pow08(delta) == IF delta = 0 THEN 10000 ELSE (Pow08(delta - 1) * 8) \div 10

\* the world-space desired direction, times 10000 (lines 95-105)
MoveVector(movement, yaw) ==
  LET cos == CosDeg(-yaw)
      sin == SinDeg(-yaw)
      moveX == movement[1] * cos - movement[2] * sin
      moveY == movement[1] * sin + movement[2] * cos
      moveLen == Len2(moveX, moveY)
  IN IF moveLen > 10000
       THEN <<DivZ(moveX * 10000, moveLen), DivZ(moveY * 10000, moveLen)>>
       ELSE <<moveX, moveY>>

\* velocity integration with damping and the speed clamp (lines 107-114)
Accelerate(spd, move, delta) ==
  LET sx == DivZ(spd[1] * Pow08(delta), 10000) + DivZ(move[1] * MoveAccel * delta, 10000)
      sz == DivZ(spd[2] * Pow08(delta), 10000) + DivZ(move[2] * MoveAccel * delta, 10000)
      currentSpeed == Len2(sx, sz)
  IN IF currentSpeed > MoveMaxSpeed
       THEN <<DivZ(sx * MoveMaxSpeed, currentSpeed), DivZ(sz * MoveMaxSpeed, currentSpeed)>>
       ELSE <<sx, sz>>

\* Player.update up to and including putOnFloor: the new player state.
\* When putOnFloor throws, the assignments made before it stay.
PlayerStep(cs, ents, boxes, pos, spd, yaw, pitch, mouse, movement, delta) ==
  LET nyaw == JsMod(yaw - (mouse[1] * 15) \div 100, 360)
      npitch == Min(Max(pitch - (mouse[2] * 15) \div 100, -85), 85)
      v == Accelerate(spd, MoveVector(movement, nyaw), delta)
      c == collide(cs, boxes, pos, v, delta)
      f == putOnFloor(cs, ents, c.position)
  IN [position |-> IF f.throws THEN c.position
                   ELSE <<c.position[1], f.y, c.position[3]>>,
      speed |-> c.speed, angleX |-> nyaw, angleY |-> npitch,
      crashed |-> f.throws, onGrass |-> f.onGrass]

\* moveDistLen > 0.2: the distance moved in the tick, over delta and over
\* moveMaxSpeed, exceeds one fifth (line 122-123)
Moving(from, to, delta) ==
  LET dx == from[1] - to[1]
      dz == from[3] - to[3]
      least == (MoveMaxSpeed \div 5) * delta
  IN dx * dx + dz * dz > least * least

\* a Player.update that plays a step at every tick of the second half-cycle
StepDueAlways(phase, played) == phase > Pi

\* "if (this.bob > Math.PI) { if (!this.stepPlayed) ..." (lines 125-126)
StepDue(phase, played) == phase > Pi /\ ~played

\* Soundscape.emitStep: a buffer source is started only when ready
emitStep(grass, isReady) ==
  IF ~isReady THEN "silent" ELSE IF grass THEN "grass" ELSE "default"

NoStep == [moving |-> FALSE, advance |-> 0, emitted |-> "none"]

\* the bob and step part of Player.update (lines 122-136)
BobStep(phase, played, moving, onGrass, delta, isReady) ==
  LET nb == (phase + BobRate * delta) % (2 * Pi) IN
  IF moving
    THEN [bob |-> nb, stepPlayed |-> nb > Pi,
          step |-> [moving |-> TRUE, advance |-> BobRate * delta,
                    emitted |-> IF StepDue(nb, played) THEN emitStep(onGrass, isReady)
                                ELSE "none"]]
    ELSE [bob |-> 0, stepPlayed |-> FALSE, step |-> NoStep]

\* the bob and step part after PlayerStep: skipped when putOnFloor threw
StepAfter(ps, from, phase, played, delta, isReady) ==
  IF ps.crashed THEN [bob |-> phase, stepPlayed |-> played, step |-> NoStep]
  ELSE BobStep(phase, played, Moving(from, ps.position, delta), ps.onGrass, delta, isReady)

(***************************************************************************)
(* Sprites (the instanced sprite manager)                                  *)
(***************************************************************************)
Ent(type, x, y, z, side, id) ==
  [type |-> type, x |-> x, y |-> y, z |-> z, side |-> side, id |-> id]

IsSprite(en) == en.type = "Sprite"
\* Sprites.entries: one per Sprite entity; id is the template index
Entries(ents) == SelectSeq(ents, IsSprite)

Frame(name, delay) ==
  [name |-> name, delay |-> delay, mesh |-> name \in {"car.s3d", "bus.s3d"}]

\* Resources.Models: loaded models with the collider MeshSprite.load computed
Models ==
  [n \in {"car.s3d"} |->
     [collider |-> Box(<<0, 4000, 1000>>, <<8000, 8000, 18000>>)]]

\* a template that stays on its first frame
FirstFrame(dfs, tpls, id) == dfs[id].frames[1]

\* the frame a template shows
CurrentFrame(dfs, tpls, id) == dfs[id].frames[tpls[id].currentFrame + 1]

\* Resources.SpriteTextures.frames[frame.name.replace('.png', '')]
HasAtlasItem(frame) == frame.name \in DOMAIN SpriteTextures.frames

\* uvStart and uvSize of rebuildVao, in thousandths
InstanceUV(name) ==
  LET item == SpriteTextures.frames[name]
  IN [uvStart |-> <<(item.x * 1000) \div SpriteTextures.width + 1,
                    (item.y * 1000) \div SpriteTextures.height + 1>>,
      uvSize |-> <<(item.width * 1000) \div SpriteTextures.width - 2,
                   (item.height * 1000) \div SpriteTextures.height - 2>>]

\* the arrays rebuildVao fills, one record per emitted instance
RECURSIVE BuildInstances(_, _, _, _, _, _)
BuildInstances(dfs, tpls, ens, litf, k, acc) ==
  IF k > Len(ens) THEN acc
  ELSE LET frame == CurrentFrame(dfs, tpls, ens[k].id)
           uv == InstanceUV(frame.name)
           inst == [entry |-> k, uvStart |-> uv.uvStart, uvSize |-> uv.uvSize,
                    offset |-> <<ens[k].x * Unit, ens[k].y * Unit - Half, ens[k].z * Unit>>,
                    color |-> IF litf[k] = "true" THEN 1 ELSE 0]
       IN BuildInstances(dfs, tpls, ens, litf, k + 1,
            IF ~frame.mesh /\ HasAtlasItem(frame) THEN Append(acc, inst) ELSE acc)

\* Sprites.rebuildVao: the buffers are uploaded only when something is emitted
rebuildVao(dfs, tpls, ens, litf, oldVao) ==
  LET inst == BuildInstances(dfs, tpls, ens, litf, 1, <<>>)
  IN [billboardCount |-> Len(inst), vao |-> IF Len(inst) > 0 THEN inst ELSE oldVao]

\* the template loop of Sprites.update
AdvanceTemplate(def, t, delta) ==
  LET ft == t.frameTime - delta
      newFrame == (t.currentFrame + 1) % Len(def.frames)
  IN IF ft <= 0
       THEN [currentFrame |-> newFrame, frameTime |-> def.frames[newFrame + 1].delay]
       ELSE [currentFrame |-> t.currentFrame, frameTime |-> ft]

spritesUpdate(dfs, tpls, ens, litf, oldVao, oldCount, delta) ==
  LET nt == [i \in DOMAIN tpls |-> AdvanceTemplate(dfs[i], tpls[i], delta)]
      needRebuild == \E i \in DOMAIN tpls : nt[i].currentFrame # tpls[i].currentFrame
      rb == rebuildVao(dfs, nt, ens, litf, oldVao)
  IN [templates |-> nt,
      vao |-> IF needRebuild THEN rb.vao ELSE oldVao,
      billboardCount |-> IF needRebuild THEN rb.billboardCount ELSE oldCount]

\* a shadow pass that draws whatever the frame is
DrawsAlways(frame) == TRUE

\* Sprites.billboardShadowPass returns before any draw call when the frame
\* has no atlas item
DrawsShadow(frame) == HasAtlasItem(frame)

\* Sprites.calculateSpritesOcclusion: one query per entry showing a billboard
RECURSIVE IssueQueries(_, _, _, _, _)
IssueQueries(dfs, tpls, ens, k, acc) ==
  IF k > Len(ens) THEN acc
  ELSE LET frame == CurrentFrame(dfs, tpls, ens[k].id)
           q == [entry |-> k, available |-> FALSE, result |-> FALSE,
                 drawn |-> DrawsShadow(frame)]
       IN IssueQueries(dfs, tpls, ens, k + 1, IF ~frame.mesh THEN Append(acc, q) ELSE acc)

\* an updateQueries that reads QUERY_RESULT without asking for availability
ReadsAlways(q) == TRUE

\* does updateQueries read QUERY_RESULT of this query?
ReadsResult(q) == q.available

IsPending(q) == ~ReadsResult(q)

\* "!!value" as the entry keeps it
JsBool(b) == IF b THEN "true" ELSE "false"

\* Sprites.updateQueries
RECURSIVE ApplyQueries(_, _, _)
ApplyQueries(qs, k, litf) ==
  IF k > Len(qs) THEN litf
  ELSE ApplyQueries(qs, k + 1,
         IF ReadsResult(qs[k]) THEN [litf EXCEPT ![qs[k].entry] = JsBool(qs[k].result)] ELSE litf)

updateQueries(qs, litf) ==
  [lit |-> ApplyQueries(qs, 1, litf),
   queries |-> SelectSeq(qs, IsPending),
   reads |-> {[entry |-> qs[k].entry, available |-> qs[k].available] :
                k \in {j \in 1..Len(qs) : ReadsResult(qs[j])}}]

\* renderBillboards: the tint of each entry in the instanced draw
DrawnTint(ens, v, count) ==
  [k \in 1..Len(ens) |-> {v[i].color : i \in {j \in 1..count : v[j].entry = k}}]

\* MeshSprite.getCollider
getCollider(model, pos, side, scale) ==
  LET p == RotateYNeg(model.collider.position, side)
      sz == RotateYNeg(model.collider.size, side)
  IN Box(<<(p[1] * scale) \div 100 + pos[1], (p[2] * scale) \div 100 + pos[2] - Half,
           (p[3] * scale) \div 100 + pos[3]>>,
         <<Abs((sz[1] * scale) \div 100), Abs((sz[2] * scale) \div 100),
           Abs((sz[3] * scale) \div 100)>>)

\* Sprites.generateCollider; "throws" when the model of a mesh frame is missing
generateCollider(def, pos, side) ==
  LET meshFrames == {j \in 1..Len(def.frames) : def.frames[j].mesh} IN
  IF meshFrames = {} THEN [throws |-> FALSE, box |-> Box(pos, <<1400, Unit, 1400>>)]
  ELSE LET fr == def.frames[CHOOSE j \in meshFrames : \A i \in meshFrames : j <= i] IN
    IF fr.name \in DOMAIN Models
      THEN [throws |-> FALSE, box |-> getCollider(Models[fr.name], pos, side, def.scale)]
      ELSE [throws |-> TRUE, box |-> Box(pos, <<0, 0, 0>>)]

\* the colliders Sprites.load pushes, in entity order, up to the first throw
RECURSIVE SpriteColliders(_, _, _, _)
SpriteColliders(dfs, ens, k, acc) ==
  IF k > Len(ens) THEN [throws |-> FALSE, boxes |-> acc]
  ELSE LET g == generateCollider(dfs[ens[k].id],
                  <<ens[k].x * Unit, ens[k].y * Unit, ens[k].z * Unit>>, ens[k].side)
       IN IF g.throws THEN [throws |-> TRUE, boxes |-> acc]
          ELSE SpriteColliders(dfs, ens, k + 1, Append(acc, g.box))

\* a Fences constructor that pushes no collider
NoFenceColliders(ents, k, acc) == acc

\* the colliders the Fences constructor pushes
RECURSIVE FenceColliders(_, _, _)
FenceColliders(ents, k, acc) ==
  IF k > Len(ents) THEN acc
  ELSE LET fence == ents[k]
           turned == fence.side = 1 \/ fence.side = 3
           box == Box(<<fence.x * Unit, fence.y * Unit, fence.z * Unit>>,
                      <<IF turned THEN 1000 ELSE Unit, Unit, IF turned THEN Unit ELSE 1000>>)
       IN FenceColliders(ents, k + 1,
            IF fence.type = "Door" /\ fence.id # "40" THEN Append(acc, box) ELSE acc)

(***************************************************************************)
(* Controls                                                                *)
(***************************************************************************)
\* the static fields after Controls.bind; pointerLock is the browser's
\* pointer lock on the canvas: "none", "requested" or "locked"
BoundControls(touch) ==
  [canLock |-> FALSE, touchMode |-> touch, keysDown |-> {}, mouseSpeed |-> <<0, 0>>,
   touchID |-> -1, touchOrigin |-> <<0, 0>>, touchPos |-> <<0, 0>>, pointerLock |-> "none"]

NoInput == [mouse |-> <<0, 0>>, movement |-> <<0, 0>>]

\* the parts of the state the specifications without input events leave alone
InputIdle == controls = BoundControls(FALSE) /\ lastInput = NoInput

\* Math.max(Math.min(v, hi), lo)
Clamp(v, lo, hi) == Max(Min(v, hi), lo)

\* Controls.getMouseSpeed; window.innerWidth is 1000
getMouseSpeed(c) ==
  IF c.touchMode
    THEN IF c.touchID # -1
           THEN <<Clamp(DivZ((c.touchPos[1] - c.touchOrigin[1]) * (-30), 1000), -80, 80), 0>>
           ELSE <<0, 0>>
    ELSE IF c.pointerLock = "locked" /\ c.canLock THEN c.mouseSpeed ELSE <<0, 0>>

\* Controls.getMovement
getMovement(c) ==
  IF c.touchMode
    THEN <<0, IF c.touchID # -1
                THEN Clamp(DivZ((c.touchPos[2] - c.touchOrigin[2]) * (-4), 1000), -1, 1)
                ELSE 0>>
    ELSE IF ~c.canLock THEN <<0, 0>>
    ELSE <<IF {"KeyD", "ArrowRight"} \cap c.keysDown # {} THEN 1
           ELSE IF {"KeyA", "ArrowLeft"} \cap c.keysDown # {} THEN -1 ELSE 0,
           IF {"KeyW", "ArrowUp"} \cap c.keysDown # {} THEN -1
           ELSE IF {"KeyS", "ArrowDown"} \cap c.keysDown # {} THEN 1 ELSE 0>>

\* a Controls.reset that clears nothing
KeepsAll(c) == c

\* Controls.reset
reset(c) == [c EXCEPT !.mouseSpeed = <<0, 0>>]

\* Controls.handleClick: pointer lock request and Soundscape.checkBuffers
handleClick(c, isLoaded) ==
  IF isLoaded /\ ~c.touchMode /\ c.pointerLock = "none"
    THEN [c EXCEPT !.pointerLock = "requested"] ELSE c

\* Soundscape.checkBuffers up to its await: the new value of loading
checkBuffers(isLoaded, isLoading, isReady) ==
  IF isLoaded /\ ~isLoading /\ ~isReady THEN TRUE ELSE isLoading

\* Soundscape before the first click: no context, no ambient channel, no
\* emitter source, no call of checkBuffers at its await, and no call that
\* arrived while another one was at its await
NoSound == [contexts |-> 0, areas |-> 0, sources |-> 0, awaiting |-> 0, overlapped |-> FALSE]

\* the emitters Soundscape.init pushes
EmitterCount == 7

\* a checkBuffers that tests ready only
createContextUnlessReady(snd, isLoaded, isLoading, isReady) ==
  IF isLoaded /\ ~isReady
    THEN [snd EXCEPT !.contexts = @ + 1, !.awaiting = @ + 1,
                     !.overlapped = @ \/ snd.awaiting > 0]
    ELSE snd

\* Soundscape.checkBuffers up to its await: "new AudioContext()" and the
\* downloads start only when neither loading nor ready is set
createContext(snd, isLoaded, isLoading, isReady) ==
  IF isLoaded /\ ~isLoading /\ ~isReady
    THEN [snd EXCEPT !.contexts = @ + 1, !.awaiting = @ + 1]
    ELSE [snd EXCEPT !.overlapped = @ \/ (isLoaded /\ snd.awaiting > 0)]

\* Soundscape.checkBuffers after its await: three ambient channels are
\* pushed and every emitter gets a source
createChannels(snd) ==
  [snd EXCEPT !.areas = @ + 3, !.sources = @ + EmitterCount, !.awaiting = @ - 1]

\* a download or a decoding failed: the rejection leaves the try block and
\* "catch (ex) {}" swallows it
swallowFailure(snd) == [snd EXCEPT !.awaiting = @ - 1]

(***************************************************************************)
(* Shader and the WebGL objects of a session                               *)
(***************************************************************************)
\* the Shader objects Engine.init creates, by owner, in construction order
WorldShaders == <<"map", "mapShadow">>
SkyShaders == <<"sky", "skyHalo">>
SceneShaders == <<"sprite", "spriteShadow", "fence">>
ShaderSlots == {"map", "mapShadow", "sky", "skyHalo", "sprite", "spriteShadow", "fence"}

\* what the driver does with one Shader: everything works, or createShader
\* returns null / COMPILE_STATUS is false for the vertex or the fragment
\* stage, or createProgram returns null / LINK_STATUS is false
GLFailures == {"noVertex", "badVertex", "noFragment", "badFragment", "noProgram", "badLink"}
GLOutcomes == {"ok"} \cup GLFailures

\* a Shader whose constructor has not run
Unbuilt == [built |-> FALSE, gl |-> "ok", vertexShader |-> FALSE, fragmentShader |-> FALSE,
            program |-> FALSE, located |-> FALSE]

\* the fields after "new Shader(...)": createShader and createProgram assign
\* in order and the first throw leaves the remaining fields null; the
\* uniform and attribute locations are looked up only after a link
newShader(outcome) ==
  [built |-> TRUE, gl |-> outcome,
   vertexShader |-> outcome \notin {"noVertex", "badVertex"},
   fragmentShader |-> outcome \in {"ok", "noProgram", "badLink"},
   program |-> outcome = "ok",
   located |-> outcome = "ok"]

\* WebGL objects the constructor allocated: a shader object exists as soon
\* as createShader returned it, a program as soon as createProgram did
ShaderObjects(outcome) ==
  CASE outcome = "noVertex" -> 0
    [] outcome \in {"badVertex", "noFragment"} -> 1
    [] OTHER -> 2
ProgramObjects(outcome) == IF outcome \in {"ok", "badLink"} THEN 1 ELSE 0

\* a constructor without the try/catch: a failure leaves it by exception
ReturnsIfBuilt(outcome) == outcome = "ok"

\* Shader.constructor, lines 109-127: the catch logs and the constructor
\* returns normally whatever createShader or createProgram threw
ConstructorReturns(outcome) == TRUE

NoGpu == [buffers |-> 0, textures |-> 0, framebuffers |-> 0, vertexArrays |-> 0,
          shaderObjects |-> 0, programs |-> 0, queries |-> 0]

NoBind == [drew |-> {}, errors |-> {}]

\* lighting of a fragment, in thousandths; depths in 1/100000
NoFragment == [shader |-> "none", normal |-> <<0, 0, 0>>, ndcZ |-> 0, sampled |-> 0,
               pointValue |-> 0, lightDot |-> 0, depth |-> 0, sun |-> 0, light |-> 0]

GpuIdle ==
  /\ shaders = [s \in ShaderSlots |-> Unbuilt] /\ gpu = NoGpu /\ lastBind = NoBind
  /\ fragment = NoFragment

\* dot(normal, normalize(vec3(-1.0, 1.5, -1.0))) for a unit normal given in
\* thousandths; the length of the sun vector is 2.0616
SunDot(n) == DivZ((-2 * n[1] + 3 * n[2] - 2 * n[3]) * 1000, 4123)

\* the vertex stages: ceil(clamp(dot, 0, 1)) for the map shaders,
\* 1 - pow(1 - clamp(dot, 0, 1), 3) for the mesh shader
LightDot(shader, n) ==
  LET d == Clamp(SunDot(n), 0, 1000)
  IN IF shader = "mesh"
       THEN 1000 - ((1000 - d) * (1000 - d) * (1000 - d)) \div 1000000
       ELSE IF d > 0 THEN 1000 ELSE 0

\* "shadowData = shadowData * 0.5 + 0.5"
ShadowDepth(ndcZ) == DivZ(ndcZ, 2) + 50000

\* the bias a fragment shader subtracts: 0.0007, or 0.001 for meshes
Bias(shader) == IF shader = "mesh" THEN 100 ELSE 70

\* a comparison with no bias
DeeperThanSample(depth, bias, sampled) == depth > sampled

\* "if (shadowData.z - bias > shadowMapValue) light = 0.0"
InShadow(depth, bias, sampled) == depth - bias > sampled

\* the fragment stages: the sun term after the shadow test, and the light
\* that mixes ambient and sun colour (the map shader adds its point lights,
\* pointFactor being 1)
Shade(f) ==
  LET depth == ShadowDepth(f.ndcZ)
      sun == IF InShadow(depth, Bias(f.shader), f.sampled) THEN 0 ELSE f.lightDot
  IN [f EXCEPT !.depth = depth, !.sun = sun,
               !.light = IF f.shader = "map" THEN Clamp(sun + f.pointValue, 0, 1000) ELSE sun]


\* the number of constructors of an owner that run: all of them, or those
\* up to the first one that throws
RECURSIVE Returned(_, _, _)
Returned(slots, out, k) ==
  IF k > Len(slots) THEN Len(slots)
  ELSE IF ConstructorReturns(out[slots[k]]) THEN Returned(slots, out, k + 1) ELSE k

\* the WebGL objects the first n constructors of an owner allocated
RECURSIVE Allocated(_, _, _, _)
Allocated(slots, out, k, n) ==
  IF k > n THEN [shaderObjects |-> 0, programs |-> 0]
  ELSE LET rest == Allocated(slots, out, k + 1, n)
       IN [shaderObjects |-> ShaderObjects(out[slots[k]]) + rest.shaderObjects,
           programs |-> ProgramObjects(out[slots[k]]) + rest.programs]

\* "new Shader" for the shaders of one owner, in order: the result holds the
\* Shader objects, the allocated WebGL objects, and whether every
\* constructor returned (the owner's constructor goes on)
Construct(sh, g, slots, out) ==
  LET n == Returned(slots, out, 1)
      ran == {slots[k] : k \in 1..n}
      al == Allocated(slots, out, 1, n)
  IN [shaders |-> [s \in ShaderSlots |-> IF s \in ran /\ ConstructorReturns(out[s])
                                           THEN newShader(out[s]) ELSE sh[s]],
      gpu |-> [g EXCEPT !.shaderObjects = @ + al.shaderObjects,
                        !.programs = @ + al.programs],
      complete |-> \A k \in 1..Len(slots) : ConstructorReturns(out[slots[k]])]

\* Shader.bind and the draw calls of a render pass: useProgram(null) and the
\* attribute index -1 make WebGL record an error and draw nothing; no call
\* throws
Bind(sh, slots) ==
  [drew |-> {s \in slots : sh[s].built /\ sh[s].program},
   errors |-> {s \in slots : sh[s].built /\ ~sh[s].program}]

\* Engine.release
release(g) == g

(***************************************************************************)
(* The enable state of the WebGL context                                   *)
(***************************************************************************)
\* a new context: DEPTH_TEST and CULL_FACE are disabled
NewContext == [depthTest |-> FALSE, cullFace |-> FALSE,
               atPass |-> [depthTest |-> FALSE, cullFace |-> FALSE]]

\* World.renderShadow: GL.disable(GL.CULL_FACE) ... GL.enable(GL.CULL_FACE)
worldRenderShadow(gl) == [gl EXCEPT !.cullFace = TRUE]

\* World.render: GL.enable(GL.CULL_FACE), and no disable
worldRender(gl) == [gl EXCEPT !.cullFace = TRUE]

\* Fences.render: GL.enable(GL.CULL_FACE) ... GL.disable(GL.CULL_FACE)
fencesRender(gl) == [gl EXCEPT !.cullFace = FALSE]

\* MeshSprite.render: GL.enable(GL.CULL_FACE), and no disable
meshRender(gl) == [gl EXCEPT !.cullFace = TRUE]

\* Sprites.render draws a mesh: an entry whose template shows a mesh frame
\* of a loaded model (there are no entries before Sprites.load has built the
\* templates)
DrawsMesh(dfs, tpls, ens) ==
  \E k \in 1..Len(ens) :
    /\ ens[k].id \in DOMAIN tpls /\ ens[k].id \in DOMAIN dfs
    /\ LET frame == CurrentFrame(dfs, tpls, ens[k].id)
       IN frame.mesh /\ frame.name \in DOMAIN Models

\* Sprites.render: MeshSprite.render per mesh entry, then the billboards,
\* which touch neither DEPTH_TEST nor CULL_FACE
spritesRender(gl, drawsMesh) == IF drawsMesh THEN meshRender(gl) ELSE gl

\* Engine.render: the sky is drawn in the state the pass starts with; the
\* map, the fences and the sprites are drawn under DEPTH_TEST
engineRender(gl, hasMap, hasFences, hasSprites, drawsMesh) ==
  LET start == [gl EXCEPT !.atPass = [depthTest |-> gl.depthTest, cullFace |-> gl.cullFace]]
      deep == [start EXCEPT !.depthTest = TRUE]
      m == IF hasMap THEN worldRender(deep) ELSE deep
      f == IF hasFences THEN fencesRender(m) ELSE m
      sp == IF hasSprites THEN spritesRender(f, drawsMesh) ELSE f
  IN [sp EXCEPT !.depthTest = FALSE]

\* Engine.renderShadow, which Engine.init calls when map and sprites exist;
\* Sprites.renderShadow and MeshSprite.renderShadow touch neither flag
engineRenderShadow(gl) ==
  LET deep == [gl EXCEPT !.depthTest = TRUE]
  IN [worldRenderShadow(deep) EXCEPT !.depthTest = FALSE]

(***************************************************************************)
(* Zones                                                                   *)
(***************************************************************************)
\* Zones.addZone: start and end in cells; onEnter, onLeave: the callback
\* was given
Zone(start, end, onEnter, onLeave) ==
  [start |-> start, end |-> end, onEnter |-> onEnter, onLeave |-> onLeave, active |-> FALSE]

addZone(zs, start, end, onEnter, onLeave) == Append(zs, Zone(start, end, onEnter, onLeave))

\* the three zones the Credits component adds when it mounts
CreditsZones(zs) ==
  addZone(addZone(addZone(zs, <<14, 4, 18>>, <<18, 4, 20>>, TRUE, TRUE),
                  <<14, 2, 18>>, <<18, 2, 20>>, TRUE, TRUE),
          <<13, 0, 18>>, <<18, 0, 23>>, TRUE, TRUE)

\* the callbacks of a zone: run by the latest update, and the latest run
NoCalls == [ran |-> <<>>, latest |-> "none"]

ZonesIdle == zones = <<>> /\ zoneCalls = <<>>

\* the inner loop of Zones.update: pos is inside the zone on all three axes
Inside(zn, pos) == \A i \in 1..3 : ~(pos[i] < zn.start[i] \/ pos[i] > zn.end[i])

\* a Zones.update that runs the callback of the side the player is on at
\* every update
ZoneCallsAlways(zn, pos) ==
  [zone |-> [zn EXCEPT !.active = Inside(zn, pos)],
   ran |-> IF Inside(zn, pos) THEN (IF zn.onEnter THEN <<"onEnter">> ELSE <<>>)
                              ELSE (IF zn.onLeave THEN <<"onLeave">> ELSE <<>>)]

\* the body of the loop of Zones.update for one zone: the zone after it
\* and the callbacks run
ZoneUpdate(zn, pos) ==
  LET inside == Inside(zn, pos)
  IN IF inside # zn.active
       THEN [zone |-> [zn EXCEPT !.active = inside],
             ran |-> IF inside THEN (IF zn.onEnter THEN <<"onEnter">> ELSE <<>>)
                               ELSE (IF zn.onLeave THEN <<"onLeave">> ELSE <<>>)]
       ELSE [zone |-> zn, ran |-> <<>>]

\* Zones.update(player); at is the player's position
zonesUpdate(zs, at) ==
  LET pos == <<CellOf(at[1]), CellOf(at[2]), CellOf(at[3])>>
  IN [k \in 1..Len(zs) |-> ZoneUpdate(zs[k], pos)]

(***************************************************************************)
(* Camera                                                                  *)
(***************************************************************************)
\* Camera lengths and angles are fixed-point integers of their own: 1.0 is
\* CamOne, so that the epsilon of gl-matrix (0.000001) is 1.  Rotations
\* are yaws of whole quarter turns.
CamOne == 1000000
Quarter == 90 * CamOne

\* a matrix of a rotation about Y and a translation: its cosine and sine,
\* and its translation column
Matrix(c, s, t) == [cos |-> c, sin |-> s, t |-> t]
Identity == Matrix(1, 0, <<0, 0, 0>>)

\* the matrix applied to a point
Transform(m, v) ==
  <<v[3] * m.sin + v[1] * m.cos + m.t[1], v[2] + m.t[2], v[3] * m.cos - v[1] * m.sin + m.t[3]>>

\* mat4.fromRotationTranslation(out, quat.fromEuler(rot), pos)
fromRotationTranslation(rot, pos) ==
  Matrix(Cos90(rot[2] \div Quarter), Sin90(rot[2] \div Quarter), pos)

\* mat4.invert of such a matrix: the transposed rotation, and the
\* translation taken back through it
invert(m) ==
  Matrix(m.cos, -m.sin,
         <<-(m.t[1] * m.cos - m.t[3] * m.sin), -m.t[2], -(m.t[3] * m.cos + m.t[1] * m.sin)>>)

\* glMatrix.equals of two numbers:
\* Math.abs(a - b) <= EPSILON * Math.max(1.0, Math.abs(a), Math.abs(b))
NumberEquals(a, b) == Abs(a - b) <= Max(CamOne, Max(Abs(a), Abs(b))) \div 1000000

\* vec3.equals
vec3equals(a, b) == \A i \in 1..3 : NumberEquals(a[i], b[i])

\* the static fields of Camera at class initialisation
NewCamera == [pos |-> <<0, 0, 0>>, rot |-> <<0, 0, 0>>, viewMatrix |-> Identity,
              matrixDirty |-> TRUE]

\* what the latest call of Camera did: the call and its argument, whether
\* it recomputed the view matrix, and the view matrix Shader.updateCamera
\* got; fresh: the view matrix has not been recomputed since class
\* initialisation; changed: a setter was given a value other than the
\* stored one since the latest recomputation
NoCall == [op |-> "none", value |-> <<0, 0, 0>>, recomputed |-> FALSE, bound |-> Identity,
           fresh |-> TRUE, changed |-> FALSE]

CameraIdle == camera = NewCamera /\ lastCamera = NoCall

\* the parts of the state most specifications leave alone
UnitsIdle == CameraIdle /\ ZonesIdle /\ glState = NewContext /\ sound = NoSound

\* "set position(value)"
setPosition(cam, value) ==
  IF ~vec3equals(cam.pos, value)
    THEN [cam EXCEPT !.pos = value, !.matrixDirty = TRUE]
    ELSE cam

\* "set rotation(value)"
setRotation(cam, value) ==
  IF ~vec3equals(cam.rot, value)
    THEN [cam EXCEPT !.rot = value, !.matrixDirty = TRUE]
    ELSE cam

\* an updateMatrices that recomputes at every call
updateAlways(cam) ==
  [camera |-> [cam EXCEPT !.viewMatrix = invert(fromRotationTranslation(cam.rot, cam.pos)),
                          !.matrixDirty = FALSE],
   recomputed |-> TRUE]

\* Camera.updateMatrices: the fields after the call, and whether the view
\* matrix was recomputed
updateMatrices(cam) ==
  IF cam.matrixDirty
    THEN [camera |-> [cam EXCEPT !.viewMatrix =
                                   invert(fromRotationTranslation(cam.rot, cam.pos)),
                                 !.matrixDirty = FALSE],
          recomputed |-> TRUE]
    ELSE [camera |-> cam, recomputed |-> FALSE]

(***************************************************************************)
(* MapReader.parse                                                         *)
(***************************************************************************)
\* a map file: the header, the values the reader returns in turn while it
\* decodes the cells, and the texture and door dictionaries read after them
NoFile == [width |-> 0, height |-> 0, data |-> <<>>, textures |-> <<>>, doors |-> <<>>]

MapFloors == 8

\* CellType: None = -1, Wall, Sprite, Door, Stair
TypeNames == [t \in -1..3 |-> CASE t = 0 -> "Wall" [] t = 1 -> "Sprite" [] t = 2 -> "Door"
                                 [] t = 3 -> "Stair" [] OTHER -> "None"]

EmptyTemp == [type |-> -1, ID |-> 0, side |-> 0, hasFloor |-> FALSE, floorID |-> 0,
              hasCeil |-> FALSE, ceilID |-> 0]

\* one cell record of a span, read at position pos: the cell and the
\* position after it
ReadCell(data, pos) ==
  LET type == data[pos] IN
  IF type = 0
    THEN [cell |-> [EmptyTemp EXCEPT !.type = type, !.ID = data[pos + 1]], pos |-> pos + 2]
    ELSE LET mask == data[pos + 1]
             hasFloor == mask % 2 = 1
             hasCeil == (mask \div 2) % 2 = 1
             p1 == pos + 2
             p2 == IF hasFloor THEN p1 + 1 ELSE p1
             p3 == IF hasCeil THEN p2 + 1 ELSE p2
             hasID == type \in {1, 2, 3}
         IN [cell |-> [type |-> type,
                       ID |-> IF hasID THEN data[p3 + 1] ELSE 0,
                       side |-> data[p3],
                       hasFloor |-> hasFloor, floorID |-> IF hasFloor THEN data[p1] ELSE 0,
                       hasCeil |-> hasCeil, ceilID |-> IF hasCeil THEN data[p2] ELSE 0],
             pos |-> IF hasID THEN p3 + 2 ELSE p3 + 1]

\* the inner loop of the decoder: the remaining cells of one span
RECURSIVE ReadSpan(_, _, _, _, _)
ReadSpan(data, pos, left, empty, temp) ==
  IF left = 0 THEN [temp |-> temp, pos |-> pos]
  ELSE IF empty THEN ReadSpan(data, pos, left - 1, empty, Append(temp, EmptyTemp))
  ELSE LET rc == ReadCell(data, pos)
       IN ReadSpan(data, rc.pos, left - 1, empty, Append(temp, rc.cell))

\* the run-length decoder: spans are read until mapSize cells exist
RECURSIVE Decode(_, _, _, _)
Decode(data, pos, mapSize, temp) ==
  IF Len(temp) >= mapSize THEN temp
  ELSE LET span == data[pos]
           rs == ReadSpan(data, pos + 1, Abs(span), span < 0, temp)
       IN Decode(data, rs.pos, mapSize, rs.temp)

\* a transformation that gives a wall cell a floor as well
WallWithFloor(c, textures) ==
  [wall |-> textures[c.ID + 1], floor |-> textures[c.ID + 1], ceil |-> Null]

\* the cell of a wall record
WallOf(c, textures) == [wall |-> textures[c.ID + 1], floor |-> Null, ceil |-> Null]

\* the cell of any other record
OpenOf(c, textures) ==
  [wall |-> Null,
   floor |-> IF c.hasFloor THEN textures[c.floorID + 1] ELSE Null,
   ceil |-> IF c.hasCeil THEN textures[c.ceilID + 1] ELSE Null]

CellOfTemp(c, textures) == IF c.type = 0 THEN WallOf(c, textures) ELSE OpenOf(c, textures)

\* the entities of the sprite, door and stair records, in cell order
RECURSIVE ParseEntities(_, _, _, _)
ParseEntities(file, temp, idx, acc) ==
  IF idx >= MapFloors * file.height * file.width THEN acc
  ELSE LET c == temp[idx + 1]
           x == idx % file.width
           y == (idx \div file.width) % file.height
           floor == idx \div (file.width * file.height)
           id == CASE c.type = 1 -> c.ID
                   [] c.type = 2 -> file.doors[c.ID + 1]
                   [] c.type = 3 -> file.textures[c.ID + 1]
                   [] OTHER -> Null
       IN ParseEntities(file, temp, idx + 1,
            IF c.type \in {1, 2, 3}
              THEN Append(acc, Ent(TypeNames[c.type], x, floor, y, (c.side + 1) % 4, id))
              ELSE acc)

\* MapReader.parse: the grid and the entities
parse(file) ==
  LET temp == Decode(file.data, 1, file.width * file.height * MapFloors, <<>>)
  IN [map |-> [floor \in 0..(MapFloors - 1) |->
                 [y \in 0..(file.height - 1) |->
                    [x \in 0..(file.width - 1) |->
                       CellOfTemp(temp[(floor * file.height + y) * file.width + x + 1],
                                  file.textures)]]],
      entities |-> ParseEntities(file, temp, 0, <<>>)]

(***************************************************************************)
(* Inputs of the frame-loop specification                                  *)
(***************************************************************************)
OpenAir == [wall |-> Null, floor |-> Null, ceil |-> Null]
Lawn == [wall |-> Null, floor |-> "grass", ceil |-> Null]

\* a walled yard of 3 x 2 lawn cells
YardCell(fl, row, col) ==
  IF row \in {0, 3} \/ col \in {0, 4} THEN WallCell ELSE Lawn
YardCells == [fl \in 0..0 |-> [row \in 0..3 |-> [col \in 0..4 |-> YardCell(fl, row, col)]]]

\* two sprites of template 1, one of template 2, and a door
YardEntities ==
  << Ent("Sprite", 2, 0, 1, 0, 1), Ent("Door", 3, 0, 1, 1, "door1"),
     Ent("Sprite", 2, 0, 2, 0, 1), Ent("Sprite", 3, 0, 2, 1, 2) >>

\* where "new Player(...)" puts the player in the yard, and its yaw
YardSpawn == <<Unit, 0, Unit>>
SpawnAngle == -85

\* sprite template lists MapReader.parseSprites can deliver
Def(scale, frs) == [scale |-> scale, frames |-> frs]
FirstTemplates ==
  { Def(100, <<Frame("tree1", 2), Frame("tree2", 1)>>),
    Def(100, <<Frame("ghost", 1), Frame("tree1", 1)>>),
    Def(100, <<Frame("bush", 2)>>),
    Def(100, <<Frame("tree1", 1), Frame("car.s3d", 2)>>) }
SecondTemplates ==
  { Def(50, <<Frame("tree2", 3), Frame("bush", 1)>>) }
DefSets == {<<a, b>> : a \in FirstTemplates, b \in SecondTemplates}

\* tick lengths in frames of 16.666 ms, and the input of a frame
FrameInputs ==
  { [delta |-> 1, movement |-> <<0, 0>>, mouse |-> <<0, 0>>],
    [delta |-> 2, movement |-> <<0, -1>>, mouse |-> <<300, 0>>] }

NoFrame == [loaded |-> FALSE, updatedSprites |-> FALSE, updatedPlayer |-> FALSE,
            renderedSky |-> FALSE, renderedMap |-> FALSE, renderedFences |-> FALSE,
            renderedSprites |-> FALSE, shadowPass |-> FALSE, colorPass |-> FALSE,
            shadowWritten |-> FALSE]

NoMesh == [verts |-> <<>>, normals |-> <<>>, uv |-> <<>>, indices |-> <<>>, indexCount |-> 0]


(***************************************************************************)
(* The frame loop: Core.run, Engine.init, frameUpdate                      *)
(***************************************************************************)
\* the state when Core.run has returned: Engine.init awaits Resources.load,
\* the first animation frame is requested
Init ==
  /\ initStage = "resources"
  /\ rafActive = TRUE
  /\ engMap = FALSE /\ sky = FALSE /\ sprites = FALSE /\ fences = FALSE
  /\ shadowmap = FALSE /\ player = FALSE /\ loaded = FALSE
  /\ shadowPasses = 0
  /\ frames = 0
  /\ lastFrame = NoFrame
  /\ defs \in DefSets
  /\ templates = <<>>
  /\ cells = YardCells
  /\ entities = YardEntities
  /\ lit = [k \in 1..Len(Entries(YardEntities)) |-> "undefined"]
  /\ queries = <<>>
  /\ vao = <<>>
  /\ billboardCount = 0
  /\ lastReads = {}
  /\ lastDraw = [k \in 1..Len(Entries(YardEntities)) |-> {}]
  /\ litBefore = [k \in 1..Len(Entries(YardEntities)) |-> "undefined"]
  /\ colliders = <<>>
  /\ mesh = NoMesh
  /\ position = <<0, 0, 0>>
  /\ speed = <<0, 0>>
  /\ angleX = 0
  /\ angleY = 0
  /\ crashed = FALSE
  /\ bob = 0 /\ stepPlayed = FALSE /\ lastStep = NoStep /\ ready = FALSE
  /\ loading = FALSE
  /\ InputIdle /\ mapFile = NoFile /\ UnitsIdle /\ GpuIdle
  /\ pc = "run"

\* Engine.init, lines 83-87: Resources.load has resolved; the World is built
\* and init awaits Skybox.load
InitResourcesLoaded ==
  /\ initStage = "resources"
  /\ initStage' = "sky"
  /\ engMap' = TRUE
  /\ mesh' = triangulateMap(cells, entities)
  /\ UNCHANGED <<rafActive, sky, sprites, fences, shadowmap, player, loaded,
                 shadowPasses, frames, lastFrame>>
  /\ UNCHANGED <<spriteVars, cells, entities, colliders, playerVars, inputVars, mapFile, unitVars, gpuVars, pc>>

\* an Engine.init without its renderShadow call
SkipsShadowPass(hasShadowmap) == FALSE

\* Engine.renderShadow as Engine.init calls it: the pass is executed when
\* the shadow map exists
RunsShadowPass(hasShadowmap) == hasShadowmap

\* Engine.init, lines 87-97: Skybox.load has resolved; sprites, fences and
\* shadow map are created, the shadow pass runs, the player is spawned.
\* Sprites.load has no await of its own, so no frame runs in between.
InitSkyLoaded ==
  /\ initStage = "sky"
  /\ sky' = TRUE
  /\ LET tpls == [i \in DOMAIN defs |-> [currentFrame |-> 0, frameTime |-> defs[i].frames[1].delay]]
         ens == Entries(entities)
         sc == SpriteColliders(defs, ens, 1, colliders)
         rb == rebuildVao(defs, tpls, ens, lit, vao)
     IN IF sc.throws
        THEN \* Sprites.load rejects: init stops here
             /\ initStage' = "failed"
             /\ colliders' = sc.boxes
             /\ UNCHANGED <<sprites, fences, shadowmap, player, loaded, shadowPasses,
                            templates, vao, billboardCount, queries, position, angleX,
                            glState>>
        ELSE /\ initStage' = "done"
             /\ templates' = tpls
             /\ sprites' = TRUE
             /\ colliders' = FenceColliders(entities, 1, sc.boxes)
             /\ fences' = TRUE
             /\ shadowmap' = TRUE
             /\ IF RunsShadowPass(TRUE)
                  THEN /\ shadowPasses' = shadowPasses + 1
                       /\ vao' = rb.vao
                       /\ billboardCount' = rb.billboardCount
                       /\ queries' = IssueQueries(defs, tpls, ens, 1, <<>>)
                       /\ glState' = engineRenderShadow(glState)
                  ELSE UNCHANGED <<shadowPasses, vao, billboardCount, queries, glState>>
             /\ player' = TRUE
             /\ position' = YardSpawn
             /\ angleX' = SpawnAngle
             /\ loaded' = TRUE
  /\ UNCHANGED <<rafActive, engMap, frames, lastFrame, defs, lit, lastReads, lastDraw,
                 litBefore, cells, entities, mesh, speed, angleY, crashed, stepVars,
                 inputVars, mapFile, cameraVars, zoneVars, sound, gpuVars, pc>>

\* the GPU finishes an occlusion query
QueryResolve ==
  \E i \in 1..Len(queries) : \E r \in BOOLEAN :
    /\ ~queries[i].available
    /\ r => queries[i].drawn
    /\ queries' = [queries EXCEPT ![i].available = TRUE, ![i].result = r]
    /\ UNCHANGED <<engineVars, defs, templates, lit, vao, billboardCount, lastReads,
                   lastDraw, litBefore, worldVars, playerVars, inputVars, mapFile, unitVars, gpuVars, pc>>

\* a call that ignores whether the object exists
CallsAlways(obj) == TRUE

\* "this.sprites?.update(delta)": the call is made only when the object is set
CallsIfSet(obj) == obj

\* frameUpdate: Engine.update(delta) and Engine.render()
FrameUpdate ==
  \E in \in FrameInputs :
    /\ rafActive
    /\ frames < MaxFrames
    /\ frames' = frames + 1
    /\ LET ens == Entries(entities)
           su == IF CallsIfSet(sprites)
                   THEN spritesUpdate(defs, templates, ens, lit, vao, billboardCount, in.delta)
                   ELSE [templates |-> templates, vao |-> vao, billboardCount |-> billboardCount]
           ps0 == IF CallsIfSet(player)
                   THEN PlayerStep(cells, entities, colliders, position, speed, angleX, angleY,
                                   in.mouse, in.movement, in.delta)
                   ELSE [position |-> position, speed |-> speed, angleX |-> angleX,
                         angleY |-> angleY, crashed |-> FALSE, onGrass |-> FALSE]
           \* an exception of Player.update leaves frameUpdate before Engine.render
           renders == ~ps0.crashed
           uq == IF renders /\ CallsIfSet(sprites)
                   THEN updateQueries(queries, lit)
                   ELSE [lit |-> lit, queries |-> queries, reads |-> lastReads]
       IN \E ps \in {ps0} :
          /\ LET bs == IF CallsIfSet(player)
                         THEN StepAfter(ps, position, bob, stepPlayed, in.delta, ready)
                         ELSE [bob |-> bob, stepPlayed |-> stepPlayed, step |-> NoStep]
             IN bob' = bs.bob /\ stepPlayed' = bs.stepPlayed /\ lastStep' = bs.step
          /\ templates' = su.templates
          /\ vao' = su.vao
          /\ billboardCount' = su.billboardCount
          /\ position' = ps.position
          /\ speed' = ps.speed
          /\ angleX' = ps.angleX
          /\ angleY' = ps.angleY
          /\ crashed' = ps.crashed
          /\ lit' = uq.lit
          /\ queries' = uq.queries
          /\ lastReads' = uq.reads
          /\ litBefore' = lit
          /\ lastDraw' = IF renders /\ CallsIfSet(sprites)
                           THEN DrawnTint(ens, su.vao, su.billboardCount)
                           ELSE [k \in DOMAIN lastDraw |-> {}]
          /\ lastFrame' = [loaded |-> loaded,
                           updatedSprites |-> CallsIfSet(sprites),
                           updatedPlayer |-> CallsIfSet(player),
                           renderedSky |-> renders /\ CallsIfSet(sky),
                           renderedMap |-> renders /\ CallsIfSet(engMap),
                           renderedFences |-> renders /\ CallsIfSet(fences),
                           renderedSprites |-> renders /\ CallsIfSet(sprites),
                           \* neither update nor render calls renderShadow
                           shadowPass |-> FALSE,
                           colorPass |-> renders,
                           shadowWritten |-> shadowPasses > 0]
          /\ glState' = IF renders
                          THEN engineRender(glState, CallsIfSet(engMap), CallsIfSet(fences),
                                            CallsIfSet(sprites),
                                            CallsIfSet(sprites)
                                              /\ DrawsMesh(defs, su.templates, ens))
                          ELSE glState
    /\ UNCHANGED <<initStage, rafActive, engMap, sky, sprites, fences, shadowmap, player,
                   loaded, shadowPasses, defs, worldVars, ready, loading, inputVars, mapFile,
                   cameraVars, zoneVars, sound, gpuVars, pc>>

Next == InitResourcesLoaded \/ InitSkyLoaded \/ QueryResolve \/ FrameUpdate

Spec == Init /\ [][Next]_vars

(***************************************************************************)
(* Frame order, loading, sprite tint and animation (C2 - C6)               *)
(***************************************************************************)
\* C2 as stated: every color pass (Engine.render) comes after a shadow pass
\* (Engine.renderShadow) of the same frame.
C2_ShadowPassEveryFrame == lastFrame.colorPass => lastFrame.shadowPass

\* C2: the shadow pass runs once, as the last rendering step of Engine.init,
\* and never in a frame; every color pass of a frame that began after init
\* had finished comes after that one shadow pass.
C2_ShadowPassOnceInInit ==
  /\ shadowPasses <= 1
  /\ loaded => shadowPasses = 1
  /\ ~lastFrame.shadowPass
  /\ (lastFrame.colorPass /\ lastFrame.loaded) => lastFrame.shadowWritten

\* a color pass of a loaded engine, after the shadow pass of init
C2_Witness ==
  /\ frames > 0 /\ lastFrame.colorPass /\ lastFrame.loaded
  /\ lastFrame.shadowWritten /\ lastFrame.renderedMap

\* C3 as stated: no frame callback runs before Engine.init has finished.
C3_NoFrameBeforeInit == frames > 0 => lastFrame.loaded

\* the objects Engine.init has created at each of its stages
StageObjects ==
  /\ engMap <=> initStage # "resources"
  /\ sky <=> initStage \in {"done", "failed"}
  /\ sprites <=> initStage = "done"
  /\ fences <=> initStage = "done"
  /\ shadowmap <=> initStage = "done"
  /\ player <=> initStage = "done"
  /\ loaded <=> initStage = "done"

\* Engine.init moves forward only: each stage is passed once
StageForward ==
  initStage' # initStage =>
    \/ initStage = "resources" /\ initStage' = "sky"
    \/ initStage = "sky" /\ initStage' \in {"done", "failed"}

\* C3: loading runs once, stage by stage, while frames already run; a frame
\* that begins before init has finished updates neither sprites nor player
\* and draws neither sprites nor fences, and it draws sky and map only when
\* init has created them.
C3_LoadingFramesAreInert ==
  /\ [](StageObjects /\
        (frames > 0 /\ ~lastFrame.loaded =>
           /\ ~lastFrame.updatedSprites /\ ~lastFrame.updatedPlayer
           /\ ~lastFrame.renderedSprites /\ ~lastFrame.renderedFences))
  /\ [][StageForward]_vars
  /\ [][frames' # frames /\ lastFrame'.renderedMap => engMap]_vars
  /\ [][frames' # frames /\ lastFrame'.renderedSky => sky]_vars

\* a frame that ran during loading and drew the map
C3_Witness ==
  /\ frames > 0 /\ ~lastFrame.loaded /\ ~loaded
  /\ lastFrame.colorPass /\ lastFrame.renderedMap

\* C4: a billboard drawn in a color pass has the tint of the lit state its
\* entry had, from a resolved query, when the frame began.
C4_TintFollowsLit ==
  \A k \in DOMAIN lastDraw :
    litBefore[k] # "undefined" =>
      \A tint \in lastDraw[k] : tint = (IF litBefore[k] = "true" THEN 1 ELSE 0)

\* C5: updateQueries reads the result of an available query only, and an
\* entry's lit changes only to the result of an available query of that entry.
C5_LitFromAvailableQuery ==
  /\ [](\A r \in lastReads : r.available)
  /\ [][\A k \in DOMAIN lit :
          lit'[k] # lit[k] =>
            \E i \in 1..Len(queries) :
              /\ queries[i].entry = k
              /\ queries[i].available
              /\ lit'[k] = JsBool(queries[i].result)]_vars

\* a frame read one query while another one is still pending
C5_Witness ==
  /\ lastReads # {}
  /\ \E k \in DOMAIN lit : lit[k] # "undefined"
  /\ \E i \in 1..Len(queries) : ~queries[i].available
  /\ \E k \in DOMAIN lit : lit[k] = "undefined"

\* the templates whose frame index a step changes
Advanced == {t \in DOMAIN templates : templates'[t].currentFrame # templates[t].currentFrame}

\* C6: when Sprites.update advances a template's frame, the rebuilt buffers
\* hold the new frame's atlas UV for every instance of that template (one
\* per entry of it that shows a billboard of the atlas), and an instance of a
\* template that did not advance keeps the UV it had.
C6_AdvanceRewritesUV ==
  [][(templates # <<>> /\ Advanced # {}) =>
       LET ens == Entries(entities)
           newFrame(k) == defs[ens[k].id].frames[templates'[ens[k].id].currentFrame + 1]
           shows(k) == ~newFrame(k).mesh /\ newFrame(k).name \in DOMAIN SpriteTextures.frames
       IN /\ \A k \in 1..Len(ens) :
               shows(k) <=> \E i \in 1..billboardCount' : vao'[i].entry = k
          /\ \A i \in 1..billboardCount' :
               LET k == vao'[i].entry IN
               IF ens[k].id \in Advanced
                 THEN /\ vao'[i].uvStart = InstanceUV(newFrame(k).name).uvStart
                      /\ vao'[i].uvSize = InstanceUV(newFrame(k).name).uvSize
                 ELSE \A j \in 1..billboardCount :
                        vao[j].entry = k =>
                          /\ vao'[i].uvStart = vao[j].uvStart
                          /\ vao'[i].uvSize = vao[j].uvSize]_vars

\* template 1 shows its second frame, both of its instances carry that
\* frame's UV, next to an instance of template 2
C6_Witness ==
  /\ templates # <<>>
  /\ templates[1].currentFrame = 1
  /\ billboardCount = 3
  /\ \A i \in 1..2 : vao[i].uvStart = InstanceUV(defs[1].frames[2].name).uvStart
  /\ vao[3].uvStart # vao[1].uvStart

(***************************************************************************)
(* Frames missing from the atlas (C14)                                     *)
(***************************************************************************)
\* C14: an entry whose current frame is a billboard without an atlas item
\* has no instance among the billboardCount drawn instances, is not drawn in
\* the latest color pass and has no occlusion draw in a query issued for
\* it, while each entry whose billboard frame is in the atlas has exactly one
\* instance and is drawn; billboardCount counts exactly the latter.
C14_MissingAtlasEntrySkipped ==
  sprites =>
    LET ens == Entries(entities)
        cur(k) == CurrentFrame(defs, templates, ens[k].id)
        missing(k) == ~cur(k).mesh /\ ~HasAtlasItem(cur(k))
        valid(k) == ~cur(k).mesh /\ HasAtlasItem(cur(k))
        instances(k) == {i \in 1..billboardCount : vao[i].entry = k}
        \* queries are issued by Engine.init, when every template shows its
        \* first frame
        issuedFor(k) == defs[ens[k].id].frames[1]
    IN /\ \A k \in 1..Len(ens) :
            missing(k) => instances(k) = {} /\ lastDraw[k] = {}
       /\ \A k \in 1..Len(ens) :
            valid(k) => /\ Cardinality(instances(k)) = 1
                        /\ lastFrame.renderedSprites => lastDraw[k] # {}
       /\ billboardCount = Cardinality({k \in 1..Len(ens) : valid(k)})
       /\ \A i \in 1..Len(queries) :
            queries[i].drawn <=> HasAtlasItem(issuedFor(queries[i].entry))
       /\ frames = 0 =>
            \A k \in 1..Len(ens) :
              ~issuedFor(k).mesh => \E i \in 1..Len(queries) : queries[i].entry = k

\* a color pass ran while the two entries of template 1 showed a frame that
\* is not in the atlas, and the entry of template 2 was drawn
C14_Witness ==
  /\ sprites /\ lastFrame.renderedSprites
  /\ \E i \in 1..Len(queries) : ~queries[i].drawn
  /\ ~HasAtlasItem(CurrentFrame(defs, templates, 1))
  /\ billboardCount = 1
  /\ lastDraw[1] = {} /\ lastDraw[2] = {} /\ lastDraw[3] # {}

(***************************************************************************)
(* The collider list (C16)                                                 *)
(***************************************************************************)
\* C16: Player.Colliders changes only in the step of Engine.init that creates
\* Sprites and Fences, and holds then one box per sprite entry and one per
\* fence; no frame (update and render) and no other step after it adds,
\* removes or changes a box.
C16_CollidersFixedAfterLoad ==
  /\ [][(initStage' = initStage) => (colliders' = colliders)]_vars
  /\ [][(initStage \in {"done", "failed"}) => (colliders' = colliders)]_vars
  /\ [](initStage \in {"resources", "sky"} => colliders = <<>>)
  /\ [](initStage = "done" =>
          Len(colliders) = Len(Entries(entities))
            + Cardinality({k \in 1..Len(entities) :
                             entities[k].type = "Door" /\ entities[k].id # "40"}))

\* frames with Player.update and a color pass ran after the load, the list
\* holding the boxes of three sprites and a fence
C16_Witness ==
  /\ initStage = "done" /\ frames = MaxFrames
  /\ lastFrame.loaded /\ lastFrame.updatedPlayer /\ lastFrame.colorPass
  /\ Len(colliders) = 4

(***************************************************************************)
(* DEPTH_TEST and CULL_FACE at the start of a color pass (C29)             *)
(***************************************************************************)
\* C29: at the start of every color pass, when the sky box is drawn, depth
\* testing and face culling are both disabled, whatever was rendered before
\* it: every renderer leaves the two flags as it found them.
C29_BothDisabledAtColorPass ==
  lastFrame.colorPass => ~glState.atPass.depthTest /\ ~glState.atPass.cullFace

\* the depth-test half alone: Engine.render and Engine.renderShadow disable
\* DEPTH_TEST at their end, so a color pass starts and ends without it
C29_DepthTestDisabledAtColorPass ==
  /\ ~glState.depthTest
  /\ lastFrame.colorPass => ~glState.atPass.depthTest

\* what the renderers leave behind: culling is enabled after the shadow pass,
\* after a frame that drew a mesh and after a frame that drew the map and no
\* fences; it is disabled after a frame whose last culling renderer was
\* Fences.render; the next color pass starts with what was left
C29_CullFaceLeftBehind ==
  [][/\ (shadowPasses' # shadowPasses) => glState'.cullFace
     /\ (frames' # frames /\ lastFrame'.colorPass) =>
          /\ glState'.atPass.cullFace = glState.cullFace
          /\ glState'.cullFace =
               IF lastFrame'.renderedSprites /\ DrawsMesh(defs, templates', Entries(entities))
                 THEN TRUE
                 ELSE IF lastFrame'.renderedFences THEN FALSE
                 ELSE IF lastFrame'.renderedMap THEN TRUE
                 ELSE glState.cullFace]_vars

(***************************************************************************)
(* The map builder over bounded grids                                      *)
(***************************************************************************)
\* the parts of the state a specification does not use
EngineIdle ==
  /\ initStage = "idle" /\ rafActive = FALSE
  /\ engMap = FALSE /\ sky = FALSE /\ sprites = FALSE /\ fences = FALSE
  /\ shadowmap = FALSE /\ player = FALSE /\ loaded = FALSE
  /\ shadowPasses = 0 /\ frames = 0 /\ lastFrame = NoFrame
SpritesIdle ==
  /\ defs = <<>> /\ templates = <<>> /\ lit = <<>> /\ queries = <<>> /\ vao = <<>>
  /\ billboardCount = 0 /\ lastReads = {} /\ lastDraw = <<>> /\ litBefore = <<>>
PlayerIdle ==
  /\ position = <<0, 0, 0>> /\ speed = <<0, 0>> /\ angleX = 0 /\ angleY = 0
  /\ crashed = FALSE
  /\ bob = 0 /\ stepPlayed = FALSE /\ lastStep = NoStep /\ ready = FALSE
  /\ loading = FALSE

\* grids of 2 floors of 3 x 3 cells: all of one kind but for at most MaxOdd
\* cells
Room == [wall |-> Null, floor |-> "grass", ceil |-> "tile"]
BuildBases == {WallCell, Room}
BuildSlots == (0..1) \X (0..2) \X (0..2)
\* the cells that may differ: the middle, an edge and a corner of each floor
OddSlots == {sl \in BuildSlots : <<sl[2], sl[3]>> \in {<<1, 1>>, <<0, 1>>, <<2, 2>>}}
OddSets == {S \in SUBSET OddSlots : Cardinality(S) <= MaxOdd}
OddGrid(base, odd) ==
  [fl \in 0..1 |-> [row \in 0..2 |-> [col \in 0..2 |->
     IF <<fl, row, col>> \in DOMAIN odd THEN odd[<<fl, row, col>>] ELSE base]]]

\* a stair of each facing in the middle of the ground floor
BuildStairs == {<<>>} \cup {<<Ent("Stair", 1, 0, 1, sd, "step")>> : sd \in 0..3}

\* MapReader puts entities into cells that are not walls
EntitiesFit(cs, ents) ==
  \A k \in 1..Len(ents) : cs[ents[k].y][ents[k].z][ents[k].x].wall = Null

InitBuild ==
  /\ EngineIdle /\ SpritesIdle /\ PlayerIdle /\ InputIdle /\ mapFile = NoFile /\ UnitsIdle /\ GpuIdle
  /\ \E base \in BuildBases : \E S \in OddSets : \E odd \in [S -> CellKinds \ {base}] :
       cells = OddGrid(base, odd)
  /\ entities \in BuildStairs
  /\ EntitiesFit(cells, entities)
  /\ (entities # <<>> => \E c \in CellKinds : \A sl \in BuildSlots :
                           sl # <<0, 1, 1>> => cells[sl[1]][sl[2]][sl[3]] = c)
  /\ colliders = <<>>
  /\ mesh = NoMesh
  /\ pc = "start"

\* new World(cells, entities): the constructor triangulates the map
Triangulate ==
  /\ pc = "start"
  /\ mesh' = triangulateMap(cells, entities)
  /\ pc' = "built"
  /\ UNCHANGED <<engineVars, spriteVars, cells, entities, colliders, playerVars, inputVars, mapFile, unitVars, gpuVars>>

\* a builder that keeps its arrays between runs and appends to them
AppendsToEarlier(earlier, cs, ents) ==
  LET m == triangulateMap(cs, ents)
  IN [verts |-> earlier.verts \o m.verts, normals |-> earlier.normals \o m.normals,
      uv |-> earlier.uv \o m.uv, indices |-> earlier.indices \o m.indices,
      indexCount |-> earlier.indexCount + m.indexCount]

\* triangulateMap run once more: its arrays and vertCount are locals that
\* start empty (lines 206-210), it writes neither the grid nor the entities,
\* and nothing of the earlier run is read
triangulateAgain(earlier, cs, ents) == triangulateMap(cs, ents)

\* a second World over the same map data
TriangulateAgain ==
  /\ pc = "built"
  /\ mesh' = triangulateAgain(mesh, cells, entities)
  /\ pc' = "rebuilt"
  /\ UNCHANGED <<engineVars, spriteVars, cells, entities, colliders, playerVars, inputVars, mapFile, unitVars, gpuVars>>

NextBuild == Triangulate \/ TriangulateAgain

SpecBuild == InitBuild /\ [][NextBuild]_vars

NumQuads(m) == Len(m.verts) \div 4
QuadVerts(m, q) == {m.verts[4 * (q - 1) + j] : j \in 1..4}
QuadNormals(m, q) == {m.normals[4 * (q - 1) + j] : j \in 1..4}
QuadUVs(m, q) == {m.uv[4 * (q - 1) + j] : j \in 1..4}
\* the triangles of the index buffer drawn from the vertices of quad q
QuadTriangles(m, q) ==
  {t \in 0..(m.indexCount \div 3 - 1) :
     \A j \in 1..3 : m.indices[3 * t + j] \in (4 * (q - 1))..(4 * (q - 1) + 3)}
\* quad q is four distinct vertices drawn as two triangles that share an edge
TwoTriangles(m, q) ==
  /\ Cardinality(QuadVerts(m, q)) = 4
  /\ Cardinality(QuadTriangles(m, q)) = 2
  /\ \A t \in QuadTriangles(m, q) : Cardinality({m.indices[3 * t + j] : j \in 1..3}) = 3
  /\ Cardinality({m.indices[3 * t + j] : t \in QuadTriangles(m, q), j \in 1..3}) = 4

AllCells(cs) ==
  {<<fl, row, col>> : fl \in DOMAIN cs, row \in DOMAIN cs[0], col \in DOMAIN cs[0][0]}
GridDirs == {<<-1, 0>>, <<1, 0>>, <<0, -1>>, <<0, 1>>}

\* the corners of the boundary between cell c and its neighbour in
\* direction d = <<row step, column step>>
FaceCorners(c, d) ==
  IF d[2] # 0
    THEN {<<c[3] * Unit + d[2] * Half, c[1] * Unit + sy * Half, c[2] * Unit + sz * Half>> :
            sy \in {-1, 1}, sz \in {-1, 1}}
    ELSE {<<c[3] * Unit + sx * Half, c[1] * Unit + sy * Half, c[2] * Unit + d[1] * Half>> :
            sx \in {-1, 1}, sy \in {-1, 1}}

\* the quads on that boundary whose normal points from c into the neighbour
WallQuads(m, c, d) ==
  {q \in 1..NumQuads(m) :
     /\ QuadVerts(m, q) = FaceCorners(c, d)
     /\ \A n \in QuadNormals(m, q) : Sign(n[1]) = d[2] /\ n[2] = 0 /\ Sign(n[3]) = d[1]}

\* C7: a wall cell has exactly one wall quad (four vertices, two triangles)
\* on the boundary with each grid neighbour that is not a wall, its normal
\* pointing from the wall cell into the neighbour, and none on the boundary
\* with a wall or with the outside of the grid; an enclosed wall cell has none.
C7_OneWallQuadPerOpenNeighbour ==
  pc = "built" =>
    \A c \in AllCells(cells) : IsWallAt(cells, c[1], c[2], c[3]) =>
      \A d \in GridDirs :
        LET open == /\ HasCell(cells, c[1], c[2] + d[1], c[3] + d[2])
                    /\ ~IsWallAt(cells, c[1], c[2] + d[1], c[3] + d[2])
            qs == WallQuads(mesh, c, d)
        IN /\ Cardinality(qs) = (IF open THEN 1 ELSE 0)
           /\ \A q \in qs : TwoTriangles(mesh, q)

\* a built map with an enclosed wall cell and a wall cell that borders an
\* open cell, which has its quad
C7_Witness ==
  /\ pc = "built"
  /\ \E c \in AllCells(cells) :
       /\ IsWallAt(cells, c[1], c[2], c[3])
       /\ \A d \in GridDirs : IsWallAt(cells, c[1], c[2] + d[1], c[3] + d[2])
  /\ \E c \in AllCells(cells) : \E d \in GridDirs :
       /\ IsWallAt(cells, c[1], c[2], c[3])
       /\ HasCell(cells, c[1], c[2] + d[1], c[3] + d[2])
       /\ ~IsWallAt(cells, c[1], c[2] + d[1], c[3] + d[2])
       /\ WallQuads(mesh, c, d) # {}

\* the corners of the bottom (s = -1) or top (s = 1) face of cell c
FlatCorners(c, s) ==
  {<<c[3] * Unit + sx * Half, c[1] * Unit + s * Half, c[2] * Unit + sz * Half>> :
     sx \in {-1, 1}, sz \in {-1, 1}}

\* the corners of a texture's rectangle in the atlas
TextureCorners(name) ==
  LET t == AtlasUV(Textures, name)
  IN {<<t.su, t.sv>>, <<t.eu, t.sv>>, <<t.su, t.ev>>, <<t.eu, t.ev>>}

\* textured quads on the bottom face of c that face up.  (The cap of a wall
\* below lies in the same place but carries no texture: all its UV are 0.)
FloorQuads(m, c) ==
  {q \in 1..NumQuads(m) :
     /\ QuadVerts(m, q) = FlatCorners(c, -1)
     /\ QuadNormals(m, q) = {<<0, Unit, 0>>}
     /\ QuadUVs(m, q) # {<<0, 0>>}}

\* quads on the top face of c that face down
CeilQuads(m, c) ==
  {q \in 1..NumQuads(m) :
     /\ QuadVerts(m, q) = FlatCorners(c, 1)
     /\ QuadNormals(m, q) = {<<0, -Unit, 0>>}}

\* C8: a cell that is not a wall has one floor quad when its floor texture
\* is set and none otherwise, and one ceiling quad when its ceiling texture
\* is set and none otherwise; each carries the cell's texture.
C8_FloorAndCeilingQuads ==
  pc = "built" =>
    \A c \in AllCells(cells) : ~IsWallAt(cells, c[1], c[2], c[3]) =>
      LET cell == cells[c[1]][c[2]][c[3]]
          fq == FloorQuads(mesh, c)
          cq == CeilQuads(mesh, c)
      IN /\ Cardinality(fq) = (IF cell.floor # Null THEN 1 ELSE 0)
         /\ Cardinality(cq) = (IF cell.ceil # Null THEN 1 ELSE 0)
         /\ \A q \in fq : QuadUVs(mesh, q) = TextureCorners(cell.floor) /\ TwoTriangles(mesh, q)
         /\ \A q \in cq : QuadUVs(mesh, q) = TextureCorners(cell.ceil) /\ TwoTriangles(mesh, q)

\* a built map with a cell that has only a floor, a cell that has only a
\* ceiling and a cell without floor on top of a capped wall
C8_Witness ==
  /\ pc = "built"
  /\ \E c \in AllCells(cells) :
       LET cell == cells[c[1]][c[2]][c[3]]
       IN cell.wall = Null /\ cell.floor # Null /\ cell.ceil = Null
          /\ FloorQuads(mesh, c) # {} /\ CeilQuads(mesh, c) = {}
  /\ \E c \in AllCells(cells) :
       LET cell == cells[c[1]][c[2]][c[3]]
       IN /\ cell.wall = Null /\ cell.floor = Null /\ cell.ceil # Null
          /\ CeilQuads(mesh, c) # {}
          /\ IsWallAt(cells, c[1] - 1, c[2], c[3])
          /\ \E q \in 1..NumQuads(mesh) : QuadVerts(mesh, q) = FlatCorners(c, -1)

(***************************************************************************)
(* Cap quads of the walls (C23)                                            *)
(***************************************************************************)
\* the quads on the top face of c that face up and carry no texture
CapQuads(m, c) ==
  {q \in 1..NumQuads(m) :
     /\ QuadVerts(m, q) = FlatCorners(c, 1)
     /\ QuadNormals(m, q) = {<<0, Unit, 0>>}
     /\ QuadUVs(m, q) = {<<0, 0>>}}

\* c is on the top floor, or the cell above c has neither wall nor floor
OpenAbove(cs, c) ==
  \/ c[1] = NumFloors(cs) - 1
  \/ /\ cs[c[1] + 1][c[2]][c[3]].wall = Null
     /\ cs[c[1] + 1][c[2]][c[3]].floor = Null

\* C23: a wall cell has exactly one cap quad (on its top face at
\* Y = floor + 0.5, facing up, all UVs zero, two triangles) when it is on
\* the top floor or the cell directly above it has neither a wall nor a
\* floor, and none when it lies under a wall or under a floored cell.
C23_CapIffOpenAbove ==
  pc = "built" =>
    \A c \in AllCells(cells) : IsWallAt(cells, c[1], c[2], c[3]) =>
      /\ Cardinality(CapQuads(mesh, c)) = (IF OpenAbove(cells, c) THEN 1 ELSE 0)
      /\ \A q \in CapQuads(mesh, c) : TwoTriangles(mesh, q)

\* a built map with a capped wall on the top floor, a capped wall under a
\* cell that has only a ceiling or nothing, a wall under a floored cell and
\* a wall under a wall, the last two without cap
C23_Witness ==
  /\ pc = "built"
  /\ \E c \in AllCells(cells) :
       IsWallAt(cells, c[1], c[2], c[3]) /\ c[1] = NumFloors(cells) - 1
       /\ CapQuads(mesh, c) # {}
  /\ \E c \in AllCells(cells) :
       /\ IsWallAt(cells, c[1], c[2], c[3]) /\ c[1] < NumFloors(cells) - 1
       /\ cells[c[1] + 1][c[2]][c[3]].wall = Null /\ cells[c[1] + 1][c[2]][c[3]].floor = Null
       /\ CapQuads(mesh, c) # {}
  /\ \E c \in AllCells(cells) :
       /\ IsWallAt(cells, c[1], c[2], c[3]) /\ c[1] < NumFloors(cells) - 1
       /\ cells[c[1] + 1][c[2]][c[3]].floor # Null
       /\ CapQuads(mesh, c) = {}
  /\ \E c \in AllCells(cells) :
       /\ IsWallAt(cells, c[1], c[2], c[3]) /\ IsWallAt(cells, c[1] + 1, c[2], c[3])
       /\ CapQuads(mesh, c) = {}

(***************************************************************************)
(* The ramp of a stair against the stair test of putOnFloor (C27)          *)
(***************************************************************************)
\* vertex k (1..8) of the ramp the builder has emitted for entity i; the
\* stair loop runs after the loop over the cells, 8 vertices per stair
RampVertex(i, k) == mesh.verts[StaticLoop(cells, 0, EmptyMesh).vertCount + 8 * (i - 1) + k]

\* the world point w in the stair-local space of putOnFloor
SolverLocal(stair, w) == StairLocal(w[1] - stair.x * Unit, w[3] - stair.z * Unit, stair.side)

\* the solver's view of vertex k of the ramp of entity i agrees with the
\* builder's: the vertex comes back to the stair-local point it was made
\* from, lies in the footprint, and the height returned there is 0.5 above it
RampVertexAgrees(i, k) ==
  LET stair == entities[i]
      p == SolverLocal(stair, RampVertex(i, k))
  IN /\ p = <<StairBase[k][1], StairBase[k][3]>>
     /\ InFootprint(p)
     /\ RampHeight(stair, p) = RampVertex(i, k)[2] + Half

\* C27 as stated: for every facing side the stair-local point the builder
\* rotates into the world comes back as the same point under the rotation
\* of putOnFloor, so that the footprint covers the emitted ramp and the
\* height returned is 0.5 above the ramp surface.
C27_SolverMatchesRamp ==
  pc = "built" =>
    \A i \in 1..Len(entities) : \A k \in 1..8 : RampVertexAgrees(i, k)

\* what holds instead: the two rotations are the same turn by side * 90
\* degrees, so together they turn the point by side * 180 degrees: stairs
\* of side 0 and 2 agree, and for side 1 and 3 the vertex comes back
\* mirrored through the stair's centre
C27_AgreesOnEvenSides ==
  pc = "built" =>
    \A i \in 1..Len(entities) : \A k \in 1..8 :
      IF entities[i].side % 2 = 0
        THEN RampVertexAgrees(i, k)
        ELSE SolverLocal(entities[i], RampVertex(i, k)) = <<-StairBase[k][1], -StairBase[k][3]>>

(***************************************************************************)
(* Player.putOnFloor over bounded worlds                                   *)
(***************************************************************************)
\* three floors of 4 x 3 cells, each floor of one kind
FloorKinds == {WallCell, Lawn, OpenAir}
FloorGrid(kinds) ==
  [fl \in 0..2 |-> [row \in 0..3 |-> [col \in 0..2 |-> kinds[fl + 1]]]]

\* the cells <<floor, row, column>> that may hold a stair, in the order in
\* which MapReader lists the entities
StairSlots == << <<0, 1, 1>>, <<0, 2, 1>>, <<1, 1, 1>> >>
RECURSIVE StairList(_, _, _)
StairList(S, sides, k) ==
  IF k > Len(StairSlots) THEN <<>>
  ELSE (IF k \in S
          THEN <<Ent("Stair", StairSlots[k][3], StairSlots[k][1], StairSlots[k][2],
                     sides[k], "step")>>
          ELSE <<>>) \o StairList(S, sides, k + 1)
StairSets ==
  {StairList(S, sides, 1) :
     S \in {T \in SUBSET (1..Len(StairSlots)) : Cardinality(T) <= MaxStairs},
     sides \in [1..Len(StairSlots) -> 0..3]}

\* player positions over, beside and between the stair cells
FloorPositions ==
  {<<x, y, z>> : x \in {Unit, Unit + 4000}, y \in {0, 7500, 17500},
                 z \in {Unit, Unit + 7000, 2 * Unit + 2000}}

InitFloor ==
  /\ EngineIdle /\ SpritesIdle /\ InputIdle /\ mapFile = NoFile /\ UnitsIdle /\ GpuIdle
  /\ \E kinds \in [1..3 -> FloorKinds] : cells = FloorGrid(kinds)
  /\ entities \in StairSets
  /\ EntitiesFit(cells, entities)
  /\ position \in FloorPositions
  /\ ~IsWallAt(cells, CellOf(position[2]), CellOf(position[3]), CellOf(position[1]))
  /\ speed = <<0, 0>> /\ angleX = 0 /\ angleY = 0 /\ crashed = FALSE
  /\ bob = 0 /\ stepPlayed = FALSE /\ lastStep = NoStep /\ ready = FALSE
  /\ loading = FALSE
  /\ colliders = <<>>
  /\ mesh = NoMesh
  /\ pc = "start"

\* one call of Player.putOnFloor
PutOnFloor ==
  /\ pc = "start"
  /\ LET f == putOnFloor(cells, entities, position)
     IN /\ position' = IF f.throws THEN position ELSE <<position[1], f.y, position[3]>>
        /\ crashed' = f.throws
  /\ pc' = "done"
  /\ UNCHANGED <<engineVars, spriteVars, worldVars, speed, angleX, angleY, stepVars,
                 inputVars, mapFile, unitVars, gpuVars>>

NextFloor == PutOnFloor

SpecFloor == InitFloor /\ [][NextFloor]_vars

(***************************************************************************)
(* Floor and stair snapping (C9, C10)                                      *)
(***************************************************************************)
SetMax(S) == CHOOSE v \in S : \A w \in S : w <= v

\* the grid floor height under a position, stated without the scan loop:
\* the highest floor at or below the player's that stops the scan decides;
\* when none does, the height is the player's own
GridFloor(cs, pos) ==
  LET cf == CellOf(pos[2])
      cx == CellOf(pos[1])
      cy == CellOf(pos[3])
      stops == {y \in 0..cf : \/ (cs[y][cy][cx].wall # Null /\ y < cf)
                              \/ cs[y][cy][cx].floor # Null}
      top == SetMax(stops)
  IN IF stops = {} THEN pos[2]
     ELSE IF cs[top][cy][cx].wall # Null /\ top < cf THEN (top + 1) * Unit
     ELSE top * Unit

\* the position in the local frame of stair k, and the height of its ramp there
LocalAt(ents, k, pos) ==
  StairLocal(pos[1] - ents[k].x * Unit, pos[3] - ents[k].z * Unit, ents[k].side)
RampAt(ents, k, pos) ==
  ents[k].y * Unit + Unit - (LocalAt(ents, k, pos)[2] + Half) \div 2

\* the stairs whose footprint contains the position's X/Z
StairsAt(ents, pos) ==
  {k \in 1..Len(ents) : ents[k].type = "Stair" /\ InFootprint(LocalAt(ents, k, pos))}
\* those of them that putOnFloor looks at: not above the player's floor
StairsSeen(ents, pos) == {k \in StairsAt(ents, pos) : ents[k].y <= CellOf(pos[2])}

FloorStep == pc = "start" /\ pc' = "done" /\ ~crashed'

StairsUnder(ents, pos) ==
  {k \in 1..Len(ents) : /\ ents[k].type = "Stair"
                        /\ pos[1] = ents[k].x * Unit /\ pos[3] = ents[k].z * Unit}

\* C10 as stated: at offset (0, 0) of a stair's local frame the player is
\* placed at stair.y + 1 - 0.25, whatever the facing.
C10_OriginHeight ==
  [][FloorStep =>
       \A k \in StairsUnder(entities, position) :
         position'[2] = entities[k].y * Unit + Unit - 2500]_vars

\* C10: at offset (0, 0) of a stair's local frame, when that stair is not
\* above the player's floor and is the last one in entity order among such
\* stairs containing the position, the player is placed at
\* stair.y + 1 - 0.25, whatever the facing, unless the grid floor height is
\* above that: then at the grid floor height.
C10_OriginHeightOnSeenStair ==
  [][FloorStep =>
       \A k \in StairsUnder(entities, position) :
         (k \in StairsSeen(entities, position) /\ k = SetMax(StairsSeen(entities, position))) =>
           position'[2] = Max(entities[k].y * Unit + Unit - 2500,
                              GridFloor(cells, position))]_vars

\* the player is on the origin of a stair of the fourth facing, 0.75 above it
C10_Witness ==
  /\ pc = "done"
  /\ \E k \in StairsUnder(entities, position) :
       /\ entities[k].side = 3
       /\ StairsAt(entities, position) = {k}
       /\ position[2] = entities[k].y * Unit + 7500
       /\ position[2] > GridFloor(cells, <<position[1], entities[k].y * Unit, position[3]>>)

(***************************************************************************)
(* Player.update over bounded worlds                                       *)
(***************************************************************************)
\* a walled hall of 3 x 3 lawn cells with one thin sprite collider
HallCell(fl, row, col) ==
  IF row \in {0, 4} \/ col \in {0, 4} THEN WallCell ELSE Lawn
HallCells == [fl \in 0..0 |-> [row \in 0..4 |-> [col \in 0..4 |-> HallCell(fl, row, col)]]]
HallColliders == <<Box(<<2 * Unit, 0, Unit>>, <<1400, Unit, 1400>>)>>

\* the middle of the hall, and the place where a clamp against the wall of
\* column 4 leaves the player
HallStarts ==
  {<<2 * Unit, 0, 2 * Unit>>, <<3 * Unit + Half - (Radius + Radius \div 1000), 0, 2 * Unit>>}

\* ticks of one frame and ticks after a stall of 183 ms or 333 ms, with the
\* keys held; and a tick of one frame with a mouse move
TickInputs ==
  {[delta |-> d, movement |-> mv, mouse |-> <<0, 0>>] :
     d \in {1, 11, 20}, mv \in {<<0, 0>>, <<0, -1>>, <<1, 0>>}}
  \cup {[delta |-> 1, movement |-> <<0, -1>>, mouse |-> <<300, 0>>]}

InitPlayer ==
  /\ EngineIdle /\ SpritesIdle /\ InputIdle /\ mapFile = NoFile /\ UnitsIdle /\ GpuIdle
  /\ cells = HallCells
  /\ entities = <<>>
  /\ colliders = HallColliders
  /\ mesh = NoMesh
  /\ position \in HallStarts
  /\ speed = <<0, 0>>
  /\ angleX = SpawnAngle
  /\ angleY = 0
  /\ crashed = FALSE
  /\ bob = 0 /\ stepPlayed = FALSE /\ lastStep = NoStep
  /\ ready \in BOOLEAN /\ loading = ready
  /\ pc = "play"

\* one call of Player.update
PlayerTick ==
  \E in \in TickInputs :
    /\ pc = "play"
    /\ frames < MaxTicks
    /\ frames' = frames + 1
    /\ \E ps \in {PlayerStep(cells, entities, colliders, position, speed, angleX, angleY,
                             in.mouse, in.movement, in.delta)} :
         /\ position' = ps.position
         /\ speed' = ps.speed
         /\ angleX' = ps.angleX
         /\ angleY' = ps.angleY
         /\ crashed' = ps.crashed
         /\ LET bs == StepAfter(ps, position, bob, stepPlayed, in.delta, ready)
            IN bob' = bs.bob /\ stepPlayed' = bs.stepPlayed /\ lastStep' = bs.step
    /\ UNCHANGED <<initStage, rafActive, engMap, sky, sprites, fences, shadowmap, player,
                   loaded, shadowPasses, lastFrame, spriteVars, worldVars, ready, loading,
                   inputVars, mapFile, unitVars, gpuVars, pc>>

NextPlayer == PlayerTick

SpecPlayer == InitPlayer /\ [][NextPlayer]_vars

(***************************************************************************)
(* Step sounds (C11)                                                       *)
(***************************************************************************)
\* a Player.update that ran to its end
UpdateStep == pc = "play" /\ frames' = frames + 1 /\ ~crashed'

\* the half-cycle boundaries (multiples of pi) the phase passes in a tick
HalvesPassed(phase, advance) == (phase + advance) \div Pi - phase \div Pi

\* C11 as stated: while the player moves, every half bob-cycle (every pi of
\* phase) that begins brings a step sound.
C11_StepEveryHalfCycle ==
  [][(UpdateStep /\ lastStep'.moving /\ HalvesPassed(bob, lastStep'.advance) > 0)
       => lastStep'.emitted # "none"]_vars

\* C11: Player.update calls Soundscape.emitStep exactly in the ticks in
\* which the player moves above the threshold and the phase, sampled after
\* the tick's advance, passes from the first half of the cycle (<= pi) to
\* the second (> pi): once per cycle of 2 pi while every advance is below
\* pi, and not at all for a cycle whose second half a long tick jumps over
\* or re-enters.  The call starts a sound only when the Soundscape is ready.
\* At or below the threshold no step is emitted and the phase returns to 0.
C11_StepOnEnteringSecondHalf ==
  /\ [](stepPlayed <=> bob > Pi)
  /\ [][UpdateStep =>
          LET s == lastStep' IN
          /\ s.emitted # "none" <=> (s.moving /\ bob <= Pi /\ bob' > Pi)
          /\ s.emitted = "silent" <=> (s.emitted # "none" /\ ~ready)
          /\ s.moving => bob' = (bob + s.advance) % (2 * Pi)
          /\ ~s.moving => bob' = 0
          /\ (s.moving /\ s.advance < Pi /\ bob <= Pi /\ HalvesPassed(bob, s.advance) = 1)
               => s.emitted # "none"]_vars

\* a step was heard on grass, in a tick after a tick that moved the player
\* without a step
C11_Witness ==
  /\ pc = "play" /\ frames >= 2 /\ ready
  /\ lastStep.emitted = "grass" /\ lastStep.moving
  /\ stepPlayed /\ bob > Pi

(***************************************************************************)
(* Collision (C1)                                                          *)
(***************************************************************************)
\* the epsilon of the clamp: radius * 0.001
Epsilon == Radius \div 1000

\* length of the common part of two intervals (negative when apart)
Depth(lo1, hi1, lo2, hi2) == Min(hi1, hi2) - Max(lo1, lo2)

\* the player's box (radius on X/Z, half-height on Y) at pos overlaps the
\* box with centre c and half extents h by more than epsilon on every axis
Overlaps(pos, c, h) ==
  /\ Depth(pos[1] - Radius, pos[1] + Radius, c[1] - h[1], c[1] + h[1]) > Epsilon
  /\ Depth(pos[2] - Height, pos[2] + Height, c[2] - h[2], c[2] + h[2]) > Epsilon
  /\ Depth(pos[3] - Radius, pos[3] + Radius, c[3] - h[3], c[3] + h[3]) > Epsilon

WallOverlaps(cs, pos) ==
  {c \in AllCells(cs) :
     /\ IsWallAt(cs, c[1], c[2], c[3])
     /\ Overlaps(pos, <<c[3] * Unit, c[1] * Unit, c[2] * Unit>>, <<Half, Half, Half>>)}
BoxOverlaps(boxes, pos) ==
  {k \in 1..Len(boxes) :
     Overlaps(pos, boxes[k].position,
              <<boxes[k].size[1] \div 2, boxes[k].size[2] \div 2, boxes[k].size[3] \div 2>>)}

\* a wall cell lies within the lookahead window of the position on the axis
\* (1 = X, 3 = Z) in direction dir, in the rows and floors the player spans
WallAhead(cs, pos, axis, dir) ==
  dir # 0 /\
  \E n \in 1..Lookahead :
    LET c0 == CellOf(pos[axis])
        lateral == IF axis = 1 THEN pos[3] ELSE pos[1]
    IN \E fl \in ((pos[2] + Half - Height) \div Unit)..((pos[2] + Half + Height) \div Unit) :
       \E x \in ((lateral + Half - Radius) \div Unit)..((lateral + Half + Radius) \div Unit) :
         IF axis = 1 THEN IsWallAt(cs, fl, x, c0 + dir * n)
                     ELSE IsWallAt(cs, fl, c0 + dir * n, x)

\* C1: after a tick in which the player travelled toward a wall that lay
\* within the lookahead window, the player's box overlaps no wall cell and
\* no CollisionBox by more than the epsilon.
C1_NoOverlapAfterCollide ==
  [][(pc = "play" /\ frames' = frames + 1 /\ ~crashed'
      /\ WallOverlaps(cells, position) = {} /\ BoxOverlaps(colliders, position) = {}
      /\ \/ WallAhead(cells, position, 1, Sign(position'[1] - position[1]))
         \/ WallAhead(cells, position, 3, Sign(position'[3] - position[3])))
     => (WallOverlaps(cells, position') = {} /\ BoxOverlaps(colliders, position') = {})]_vars

(***************************************************************************)
(* The clamp of Player.collide (C20)                                       *)
(***************************************************************************)
\* what Player.update hands to collide for the input of a tick, and what
\* collide answers
TickCollide(in) ==
  LET nyaw == JsMod(angleX - (in.mouse[1] * 15) \div 100, 360)
      v == Accelerate(speed, MoveVector(in.movement, nyaw), in.delta)
  IN [yaw |-> nyaw, v |-> v, c |-> collide(cells, colliders, position, v, in.delta)]

\* the tick from the current state to the next is the one of input in
TickOf(in) ==
  LET t == TickCollide(in)
  IN /\ UpdateStep
     /\ angleX' = t.yaw
     /\ speed' = t.c.speed
     /\ position'[1] = t.c.position[1] /\ position'[3] = t.c.position[3]

\* the boundary an axis of collide clamps against: the grid, then the boxes
AxisNearest(axis, lateral, dir) ==
  BoxNearest(colliders, 1, axis, dir, position[axis], lateral, position[2],
             GridNearest(cells, axis, CellOf(position[axis]), dir, lateral, position[2]))

\* coordinate p is not beyond the boundary minus the radius in direction dir
ShortOfBoundary(p, nearest, dir) == dir * p <= dir * nearest - Radius

\* C20 as stated: on each axis the player travels along, the coordinate
\* after collide is never beyond the nearest boundary minus the radius in
\* the direction of travel, and the axis' speed is 0 exactly when the
\* coordinate was clamped and is the incoming speed otherwise.
C20_NeverBeyondBoundary ==
  [][\A in \in TickInputs :
       (TickOf(in) /\ WallOverlaps(cells, position) = {}
                   /\ BoxOverlaps(colliders, position) = {})
       => LET t == TickCollide(in)
          IN /\ t.v[1] # 0 =>
                  ShortOfBoundary(position'[1],
                                  AxisNearest(1, position[3], Sign(t.v[1])), Sign(t.v[1]))
             /\ t.v[2] # 0 =>
                  ShortOfBoundary(position'[3],
                                  AxisNearest(3, position'[1], Sign(t.v[2])), Sign(t.v[2]))
             /\ speed'[1] = (IF t.c.clampedX THEN 0 ELSE t.v[1])
             /\ speed'[2] = (IF t.c.clampedZ THEN 0 ELSE t.v[2])]_vars

\* the part of C20 about the speed alone, and the placement of a clamped
\* coordinate radius * 1.001 short of the boundary
C20_SpeedZeroWhenClamped ==
  [][\A in \in TickInputs :
       TickOf(in)
       => LET t == TickCollide(in)
          IN /\ speed'[1] = (IF t.c.clampedX THEN 0 ELSE t.v[1])
             /\ speed'[2] = (IF t.c.clampedZ THEN 0 ELSE t.v[2])
             /\ t.c.clampedX =>
                  position'[1] = AxisNearest(1, position[3], Sign(t.v[1]))
                                 - Sign(t.v[1]) * (Radius + Radius \div 1000)
             /\ t.c.clampedZ =>
                  position'[3] = AxisNearest(3, position'[1], Sign(t.v[2]))
                                 - Sign(t.v[2]) * (Radius + Radius \div 1000)]_vars

(***************************************************************************)
(* The grid scan of Player.collide (C21)                                   *)
(***************************************************************************)
\* the boundary the grid scan of an axis hands to the loop over the boxes
GridScan(axis, lateral, dir) ==
  GridNearest(cells, axis, CellOf(position[axis]), dir, lateral, position[2])

\* a wall n cells from the player's cell on the axis, in the lateral cells
\* and floors the player spans
WallAtDistance(axis, lateral, dir, n) ==
  \E fl \in Max((position[2] + Half - Height) \div Unit, 0)
            ..Max((position[2] + Half + Height) \div Unit, 0) :
    \E x \in ((lateral + Half - Radius) \div Unit)..((lateral + Half + Radius) \div Unit) :
      IF axis = 1 THEN IsWallAt(cells, fl, x, CellOf(position[1]) + dir * n)
                  ELSE IsWallAt(cells, fl, CellOf(position[3]) + dir * n, x)

\* the boundary of the cell n cells ahead that faces the player
FacingBoundary(axis, dir, n) ==
  (CellOf(position[axis]) + dir * n + (IF dir < 0 THEN 1 ELSE 0)) * Unit - Half

\* the fallback boundary at player cell + 5 * dir
FarBoundary(axis, dir) == (CellOf(position[axis]) + dir * Lookahead) * Unit - Half

\* the scan as C21 states it, for one axis
LookaheadScan(axis, lateral, dir) ==
  /\ \A n \in 1..Lookahead :
       (WallAtDistance(axis, lateral, dir, n)
        /\ \A m \in 1..(n - 1) : ~WallAtDistance(axis, lateral, dir, m))
       => GridScan(axis, lateral, dir) = FacingBoundary(axis, dir, n)
  /\ GridScan(axis, lateral, dir) = FarBoundary(axis, dir)
       => \A n \in 1..Lookahead : ~WallAtDistance(axis, lateral, dir, n)

\* the scan of the code, for one axis
AdjacentScan(axis, lateral, dir) ==
  GridScan(axis, lateral, dir) =
    IF WallAtDistance(axis, lateral, dir, 1) THEN FacingBoundary(axis, dir, 1)
                                             ELSE FarBoundary(axis, dir)

\* C21 as stated: on each axis travelled the grid scan finds the nearest
\* wall boundary among the cells within 5 cells of the player's cell, and
\* uses the far boundary only when none of those cells is a wall.
C21_ScansLookahead ==
  [][\A in \in TickInputs :
       TickOf(in)
       => LET t == TickCollide(in)
          IN /\ t.v[1] # 0 => LookaheadScan(1, position[3], Sign(t.v[1]))
             /\ t.v[2] # 0 => LookaheadScan(3, position'[1], Sign(t.v[2]))]_vars

\* C21: on each axis travelled the grid scan of Player.collide looks only
\* at the cells next to the player's cell in the direction of travel
\* (player cell + dir, within the player's vertical extent and lateral
\* radius).  When one of them is a wall the boundary is the face of that
\* cell; otherwise it is the far boundary at player cell + 5 * dir, also
\* when a wall lies 2 to 5 cells ahead.
C21_ScansAdjacentOnly ==
  [][\A in \in TickInputs :
       TickOf(in)
       => LET t == TickCollide(in)
          IN /\ t.v[1] # 0 => AdjacentScan(1, position[3], Sign(t.v[1]))
             /\ t.v[2] # 0 => AdjacentScan(3, position'[1], Sign(t.v[2]))]_vars

\* a tick has carried the player along +X from a cell two or more cells
\* before the wall of column 4, unclamped
C21_Witness ==
  /\ pc = "play" /\ frames > 0 /\ ~crashed /\ cells = HallCells
  /\ speed[1] > 0 /\ CellOf(position[1]) = 2 /\ position[1] > 2 * Unit

(***************************************************************************)
(* The order of the axes in Player.collide (C22)                           *)
(***************************************************************************)
\* the step of one axis from the state before the tick: v is the speed on
\* the axis, lateral the coordinate of the other axis the step works with
StepOfAxis(axis, lateral, v, delta) ==
  AxisStep(cells, colliders, axis, CellOf(position[axis]), position[axis], position[axis],
           lateral, position[2], v, delta)

\* C22: Player.collide resolves the X axis before the Z axis.  The X step
\* works with the Z coordinate of before the tick; the Z step works, for
\* its lateral cell range and its box overlap test, with the X coordinate
\* the X step has moved and clamped.
C22_XBeforeZ ==
  [][\A in \in TickInputs :
       TickOf(in)
       => LET t == TickCollide(in)
              xs == StepOfAxis(1, position[3], t.v[1], in.delta)
              zs == StepOfAxis(3, position'[1], t.v[2], in.delta)
          IN /\ position'[1] = xs.p /\ speed'[1] = xs.v
             /\ position'[3] = zs.p /\ speed'[2] = zs.v]_vars

\* a tick has moved the player along +X into column 4 and has clamped Z at
\* the face of row 3, whose only wall in reach is the one of column 4: the
\* Z step has looked at the rows of the moved X
C22_Witness ==
  /\ pc = "play" /\ frames > 0 /\ ~crashed /\ cells = HallCells
  /\ speed[1] > 0 /\ speed[2] = 0
  /\ CellOf(position[1]) = 4
  /\ position[3] = 2 * Unit + Half - (Radius + Radius \div 1000)

(***************************************************************************)
(* The player's cell inside the grid (C26)                                 *)
(***************************************************************************)
\* the outermost rows and columns of every floor are wall cells
BorderWalled(cs) ==
  \A fl \in DOMAIN cs : \A row \in DOMAIN cs[fl] : \A col \in DOMAIN cs[fl][row] :
    (row \in {0, NumRows(cs) - 1} \/ col \in {0, NumCols(cs) - 1})
    => cs[fl][row][col].wall # Null

\* C26 as stated: in a map with walls all around, after any sequence of
\* ticks the player's cell indices are inside the grid and putOnFloor has
\* not indexed outside the cell array.
C26_PlayerCellInGrid ==
  (pc = "play" /\ BorderWalled(cells))
  => /\ HasCell(cells, CellOf(position[2]), CellOf(position[3]), CellOf(position[1]))
     /\ ~crashed

(***************************************************************************)
(* Controls under input events                                             *)
(***************************************************************************)
KeyCodes == {"KeyW", "KeyS", "KeyD"}
MouseMoves == {<<300, 0>>, <<0, 40>>}
TouchPoints == {<<0, 0>>, <<200, 0>>, <<0, 300>>}

\* Controls.bind has run; Engine.init has created the player and set
\* Engine.loaded, or not yet
InitControls ==
  /\ initStage = "idle" /\ rafActive = FALSE
  /\ engMap = FALSE /\ sky = FALSE /\ sprites = FALSE /\ fences = FALSE
  /\ shadowmap = FALSE /\ player \in BOOLEAN /\ loaded = player
  /\ shadowPasses = 0 /\ frames = 0 /\ lastFrame = NoFrame
  /\ SpritesIdle /\ PlayerIdle
  /\ cells = HallCells /\ entities = <<>> /\ colliders = <<>> /\ mesh = NoMesh
  /\ \E touch \in BOOLEAN : controls = BoundControls(touch)
  /\ lastInput = NoInput
  /\ GpuIdle /\ mapFile = NoFile /\ UnitsIdle
  /\ pc = "input"

\* an input event changes Controls (and, with a click, Soundscape) only
InputEvent(c, isLoading) ==
  /\ controls' = c
  /\ loading' = isLoading
  /\ pc' = "input"
  /\ UNCHANGED <<engineVars, spriteVars, worldVars, position, speed, angleX, angleY,
                 crashed, bob, stepPlayed, lastStep, ready, lastInput, gpuVars, mapFile,
                 cameraVars, zoneVars, glState>>

\* an input event that does not call Soundscape.checkBuffers
KeepsSound(c) == InputEvent(c, loading) /\ sound' = sound

\* Controls.lock
Lock ==
  /\ InputEvent(handleClick([controls EXCEPT !.canLock = TRUE], loaded),
                checkBuffers(loaded, loading, ready))
  /\ sound' = createContext(sound, loaded, loading, ready)

\* click on the canvas
HandleClick ==
  /\ InputEvent(handleClick(controls, loaded), checkBuffers(loaded, loading, ready))
  /\ sound' = createContext(sound, loaded, loading, ready)

\* the browser grants the requested pointer lock, or the user leaves it
PointerLockChange ==
  /\ controls.pointerLock # "none"
  /\ KeepsSound([controls EXCEPT !.pointerLock =
                   IF controls.pointerLock = "requested" THEN "locked" ELSE "none"])

\* Soundscape.checkBuffers after its await: all sounds are decoded
BuffersLoaded ==
  /\ sound.awaiting > 0
  /\ ready' = TRUE
  /\ sound' = createChannels(sound)
  /\ UNCHANGED <<engineVars, spriteVars, worldVars, position, speed, angleX, angleY,
                 crashed, bob, stepPlayed, lastStep, loading, inputVars, mapFile,
                 cameraVars, zoneVars, glState, gpuVars, pc>>

\* Soundscape.checkBuffers after its await when a sound could not be loaded:
\* loading stays set and ready is never set
BuffersFailed ==
  /\ sound.awaiting > 0
  /\ sound' = swallowFailure(sound)
  /\ UNCHANGED <<engineVars, spriteVars, worldVars, position, speed, angleX, angleY,
                 crashed, bob, stepPlayed, lastStep, ready, loading, inputVars, mapFile,
                 cameraVars, zoneVars, glState, gpuVars, pc>>

\* Soundscape.emitStep, which Player.update calls when a step is due
EmitStep ==
  /\ CallsIfSet(player)
  /\ \E grass \in BOOLEAN :
       lastStep' = [moving |-> TRUE, advance |-> 0, emitted |-> emitStep(grass, ready)]
  /\ UNCHANGED <<engineVars, spriteVars, worldVars, position, speed, angleX, angleY,
                 crashed, bob, stepPlayed, ready, loading, inputVars, mapFile, unitVars,
                 gpuVars, pc>>

HandleKeyDown ==
  \E code \in KeyCodes :
    KeepsSound([controls EXCEPT !.keysDown = @ \cup {code}])

HandleKeyUp ==
  \E code \in KeyCodes :
    KeepsSound([controls EXCEPT !.keysDown = @ \ {code}])

HandleMouseMove ==
  \E mv \in MouseMoves : KeepsSound([controls EXCEPT !.mouseSpeed = mv])

\* one finger (identifier 7) touches, moves and leaves
HandleTouchStart ==
  \E pt \in TouchPoints :
    KeepsSound(IF controls.touchID = -1
                 THEN [controls EXCEPT !.touchID = 7, !.touchOrigin = pt, !.touchPos = pt]
                 ELSE controls)

HandleTouchMove ==
  \E pt \in TouchPoints :
    KeepsSound(IF controls.touchID = 7 THEN [controls EXCEPT !.touchOrigin = pt]
               ELSE controls)

HandleTouchEnd ==
  KeepsSound([controls EXCEPT !.touchID = -1])

\* Engine.update as Controls sees it: Player.update reads the look delta and
\* the movement (when the player exists), then Controls.reset runs
ControlsTick ==
  /\ lastInput' = IF CallsIfSet(player)
                    THEN [mouse |-> getMouseSpeed(controls), movement |-> getMovement(controls)]
                    ELSE NoInput
  /\ controls' = reset(controls)
  /\ pc' = "consumed"
  /\ UNCHANGED <<engineVars, spriteVars, worldVars, playerVars, gpuVars, mapFile, unitVars>>

NextControls ==
  \/ Lock \/ HandleClick \/ PointerLockChange \/ BuffersLoaded
  \/ HandleKeyDown \/ HandleKeyUp \/ HandleMouseMove
  \/ HandleTouchStart \/ HandleTouchMove \/ HandleTouchEnd
  \/ ControlsTick

SpecControls == InitControls /\ [][NextControls]_vars

\* C12 as stated: after a tick has consumed the input and Controls.reset has
\* run, movement vector and look delta are both (0, 0) until an input event.
C12_NeutralAfterTick ==
  pc = "consumed" => (getMovement(controls) = <<0, 0>> /\ getMouseSpeed(controls) = <<0, 0>>)

\* C12: Controls.reset clears the mouse look delta and nothing else.  After
\* a tick the mouse look delta is (0, 0) until the next mousemove; the
\* movement vector is what the tick read, as long as the keys stay held or
\* the finger stays down, and in touch mode so is the look delta.
C12_OnlyMouseDeltaReset ==
  /\ [](pc = "consumed" =>
          /\ controls.mouseSpeed = <<0, 0>>
          /\ ~controls.touchMode => getMouseSpeed(controls) = <<0, 0>>
          /\ player => getMovement(controls) = lastInput.movement
          /\ (player /\ controls.touchMode) => getMouseSpeed(controls) = lastInput.mouse)
  /\ [][pc' = "consumed" => controls' = [controls EXCEPT !.mouseSpeed = <<0, 0>>]]_vars

\* a tick has read a mouse move and a held key: the look delta is back at
\* (0, 0), the movement is not
C12_Witness ==
  /\ pc = "consumed" /\ ~controls.touchMode
  /\ lastInput.mouse # <<0, 0>> /\ lastInput.movement # <<0, 0>>
  /\ getMouseSpeed(controls) = <<0, 0>>
  /\ getMovement(controls) = lastInput.movement

(***************************************************************************)
(* Soundscape.checkBuffers under repeated clicks (C30)                     *)
(***************************************************************************)
\* the clicks, the two ends of the downloads and the steps of the player
NextSound ==
  \/ Lock \/ HandleClick \/ PointerLockChange
  \/ BuffersLoaded \/ BuffersFailed
  \/ EmitStep

SpecSound == InitControls /\ [][NextSound]_vars

StepHeard == lastStep.emitted \in {"grass", "default"}

\* C30: however many times Soundscape.checkBuffers is called, also while an
\* earlier call is awaiting its downloads, the audio context, the three
\* ambient channels and the emitter sources are created at most once, and no
\* step sound is emitted before the loading has completed.
C30_SoundCreatedOnce ==
  /\ sound.contexts <= 1 /\ sound.awaiting <= 1
  /\ sound.areas \in {0, 3} /\ sound.sources \in {0, EmitterCount}
  /\ ready => sound.areas = 3 /\ sound.sources = EmitterCount /\ sound.awaiting = 0
  /\ StepHeard => ready

\* a second click arrived while the first call was awaiting, the downloads
\* finished and a step was heard
C30_Witness ==
  /\ sound.overlapped /\ ready /\ StepHeard
  /\ sound.contexts = 1 /\ sound.areas = 3 /\ sound.sources = EmitterCount

(***************************************************************************)
(* A session as the WebGL context sees it: run, init, frames, stop         *)
(***************************************************************************)
MaxBroken == 2       \* shaders of a session the driver rejects

\* the sprite templates of the session
SessionDefs == <<Def(100, <<Frame("tree1", 2), Frame("tree2", 1)>>),
                 Def(50, <<Frame("tree2", 3), Frame("bush", 1)>>)>>

Broken(sh) == {s \in ShaderSlots : sh[s].built /\ sh[s].gl # "ok"}

\* what the driver answers for the shaders of one owner
Outcomes(slots, most) ==
  LET S == {slots[k] : k \in 1..Len(slots)}
  IN UNION {{[s \in S |-> IF s \in B THEN g[s] ELSE "ok"] : g \in [B -> GLFailures]} :
              B \in {X \in SUBSET S : Cardinality(X) <= most}}

InitSession ==
  /\ initStage = "resources" /\ rafActive = TRUE
  /\ engMap = FALSE /\ sky = FALSE /\ sprites = FALSE /\ fences = FALSE
  /\ shadowmap = FALSE /\ player = FALSE /\ loaded = FALSE
  /\ shadowPasses = 0 /\ frames = 0 /\ lastFrame = NoFrame
  /\ SpritesIdle /\ PlayerIdle /\ InputIdle /\ mapFile = NoFile /\ UnitsIdle /\ GpuIdle
  /\ cells = YardCells /\ entities = YardEntities /\ colliders = <<>> /\ mesh = NoMesh
  /\ pc = "session"

\* Engine.init, lines 83-85: Resources.load has resolved (three atlas
\* textures; the models are left out) and "new World" runs: two shaders and
\* the four buffers of triangulateMap
SessionResourcesLoaded ==
  \E out \in Outcomes(WorldShaders, MaxBroken) :
    /\ initStage = "resources"
    /\ LET g == [gpu EXCEPT !.textures = @ + 3]
           c == Construct(shaders, g, WorldShaders, out)
       IN /\ shaders' = c.shaders
          /\ IF c.complete
               THEN /\ gpu' = [c.gpu EXCEPT !.buffers = @ + 4]
                    /\ engMap' = TRUE
                    /\ initStage' = "sky"
               ELSE /\ gpu' = c.gpu
                    /\ initStage' = "failed"
                    /\ UNCHANGED engMap
    /\ UNCHANGED <<rafActive, sky, sprites, fences, shadowmap, player, loaded,
                   shadowPasses, frames, lastFrame, lastBind, fragment>>
    /\ UNCHANGED <<spriteVars, worldVars, playerVars, inputVars, mapFile, unitVars, pc>>

\* Engine.init, lines 87-97: Skybox.load has resolved (five face textures,
\* two shaders, three buffers); Sprites (two shaders, eight buffers, one
\* vertex array), Fences (one shader, three buffers) and Shadowmap (two
\* textures, one framebuffer) are created and renderShadow runs the shadow
\* shaders and issues one occlusion query per billboard
SessionSkyLoaded ==
  \E out \in Outcomes(SkyShaders \o SceneShaders, MaxBroken - Cardinality(Broken(shaders))) :
    /\ initStage = "sky"
    /\ LET g == [gpu EXCEPT !.textures = @ + 5]
           c == Construct(shaders, g, SkyShaders \o SceneShaders, out)
           tpls == [i \in DOMAIN SessionDefs |->
                      [currentFrame |-> 0, frameTime |-> SessionDefs[i].frames[1].delay]]
           issued == IssueQueries(SessionDefs, tpls, Entries(entities), 1, <<>>)
       IN /\ shaders' = c.shaders
          /\ IF c.complete
               THEN /\ gpu' = [c.gpu EXCEPT !.buffers = @ + 3 + 8 + 3,
                                            !.vertexArrays = @ + 1,
                                            !.textures = @ + 2,
                                            !.framebuffers = @ + 1,
                                            !.queries = @ + Len(issued)]
                    /\ sky' = TRUE /\ sprites' = TRUE /\ fences' = TRUE
                    /\ shadowmap' = TRUE /\ player' = TRUE /\ loaded' = TRUE
                    /\ shadowPasses' = shadowPasses + 1
                    /\ lastBind' = Bind(c.shaders, {"mapShadow", "spriteShadow"})
                    /\ initStage' = "done"
               ELSE /\ gpu' = c.gpu
                    /\ initStage' = "failed"
                    /\ UNCHANGED <<sky, sprites, fences, shadowmap, player, loaded,
                                   shadowPasses, lastBind>>
    /\ UNCHANGED <<rafActive, engMap, frames, lastFrame, fragment>>
    /\ UNCHANGED <<spriteVars, worldVars, playerVars, inputVars, mapFile, unitVars, pc>>

\* the shaders Engine.render binds: those of the objects that exist
RenderSlots ==
  (IF CallsIfSet(sky) THEN {"sky", "skyHalo"} ELSE {})
  \cup (IF CallsIfSet(engMap) THEN {"map"} ELSE {})
  \cup (IF CallsIfSet(fences) THEN {"fence"} ELSE {})
  \cup (IF CallsIfSet(sprites) THEN {"sprite"} ELSE {})

\* frameUpdate: Engine.render binds the shaders and draws; Sprites.render
\* deletes the queries whose result has become available
SessionFrame ==
  \E done \in 0..gpu.queries :
    /\ rafActive
    /\ frames < MaxFrames
    /\ frames' = frames + 1
    /\ lastBind' = Bind(shaders, RenderSlots)
    /\ gpu' = [gpu EXCEPT !.queries = IF CallsIfSet(sprites) THEN @ - done ELSE @]
    /\ UNCHANGED <<initStage, rafActive, engMap, sky, sprites, fences, shadowmap, player,
                   loaded, shadowPasses, lastFrame, shaders, fragment>>
    /\ UNCHANGED <<spriteVars, worldVars, playerVars, inputVars, mapFile, unitVars, pc>>

\* Core.stop: the pending animation frame is cancelled, Engine.release and
\* Controls.release run
Stop ==
  /\ pc = "session"
  /\ pc' = "stopped"
  /\ rafActive' = FALSE
  /\ gpu' = release(gpu)
  /\ UNCHANGED <<initStage, engMap, sky, sprites, fences, shadowmap, player, loaded,
                 shadowPasses, frames, lastFrame, shaders, lastBind, fragment>>
  /\ UNCHANGED <<spriteVars, worldVars, playerVars, inputVars, mapFile, unitVars>>

NextSession == SessionResourcesLoaded \/ SessionSkyLoaded \/ SessionFrame \/ Stop

SpecSession == InitSession /\ [][NextSession]_vars

(***************************************************************************)
(* Shader failures (C13)                                                   *)
(***************************************************************************)
\* C13: a Shader whose compilation or link failed has no program and no
\* locations, and no step changes a constructed Shader; whatever the driver
\* did to some shaders, each init stage constructs all shaders of its
\* owners and goes on, a frame can run whenever one is scheduled, and a
\* frame draws with every bound shader that has a program.
C13_FailedShaderStaysDead ==
  /\ [](\A s \in ShaderSlots :
          shaders[s].built /\ shaders[s].gl # "ok"
            => ~shaders[s].program /\ ~shaders[s].located)
  /\ [][\A s \in ShaderSlots : shaders[s].built => shaders'[s] = shaders[s]]_vars
  /\ [][initStage = "resources" /\ initStage' # "resources"
          => /\ initStage' = "sky" /\ engMap'
             /\ \A k \in 1..Len(WorldShaders) : shaders'[WorldShaders[k]].built]_vars
  /\ [][initStage = "sky" /\ initStage' # "sky"
          => /\ initStage' = "done" /\ loaded'
             /\ \A s \in ShaderSlots : shaders'[s].built]_vars
  /\ [](rafActive /\ frames < MaxFrames => ENABLED SessionFrame)
  /\ [][frames' = frames + 1
          => lastBind'.drew = {s \in RenderSlots : shaders[s].program}]_vars

\* one shader failed, init finished, and a frame drew with all the others
C13_Witness ==
  /\ initStage = "done" /\ frames > 0
  /\ Cardinality(Broken(shaders)) = 1
  /\ \E s \in RenderSlots : s \in Broken(shaders) /\ s \in lastBind.errors
  /\ lastBind.drew = RenderSlots \ Broken(shaders)

(***************************************************************************)
(* Release of WebGL objects on stop (C15)                                  *)
(***************************************************************************)
\* C15: after Core.stop no WebGL object allocated by the session remains.
C15_AllReleasedOnStop == pc = "stopped" => gpu = NoGpu

(***************************************************************************)
(* The shadow test of the colour shaders over bounded fragments            *)
(***************************************************************************)
\* unit normals of map faces and of a slanted mesh face
FragmentNormals == {<<0, 1000, 0>>, <<0, -1000, 0>>, <<-1000, 0, 0>>, <<1000, 0, 0>>,
                    <<0, 0, -1000>>, <<0, 600, 800>>}
\* shadow-map samples, and the distance of the fragment behind the sample
SampledDepths == {30000, 50000}
DepthOffsets == {-100, 0, 60, 70, 80, 100, 110}
\* the summed point-light term of the map shader
PointValues == {0, 400, 1500}

InitShade ==
  /\ EngineIdle /\ SpritesIdle /\ PlayerIdle /\ InputIdle /\ mapFile = NoFile /\ UnitsIdle
  /\ cells = YardCells /\ entities = <<>> /\ colliders = <<>> /\ mesh = NoMesh
  /\ shaders = [s \in ShaderSlots |-> Unbuilt] /\ gpu = NoGpu /\ lastBind = NoBind
  /\ \E sh \in {"map", "plain", "mesh"}, n \in FragmentNormals, sd \in SampledDepths,
        off \in DepthOffsets, pv \in PointValues :
       fragment = [NoFragment EXCEPT !.shader = sh, !.normal = n,
                                     !.ndcZ = 2 * (sd + off) - 100000, !.sampled = sd,
                                     !.pointValue = IF sh = "map" THEN pv ELSE 0]
  /\ pc = "vertex"

\* the vertex stage hands lightDot to the rasterizer
VertexStage ==
  /\ pc = "vertex"
  /\ fragment' = [fragment EXCEPT !.lightDot = LightDot(fragment.shader, fragment.normal)]
  /\ pc' = "fragment"
  /\ UNCHANGED <<engineVars, spriteVars, worldVars, playerVars, inputVars, mapFile, unitVars, shaders, gpu,
                 lastBind>>

FragmentStage ==
  /\ pc = "fragment"
  /\ fragment' = Shade(fragment)
  /\ pc' = "shaded"
  /\ UNCHANGED <<engineVars, spriteVars, worldVars, playerVars, inputVars, mapFile, unitVars, shaders, gpu,
                 lastBind>>

NextShade == VertexStage \/ FragmentStage

SpecShade == InitShade /\ [][NextShade]_vars

(***************************************************************************)
(* Shadow comparison (C17)                                                 *)
(***************************************************************************)
\* C17 as stated: a fragment not deeper than the sample plus the bias is
\* lit, a deeper one is unlit.
C17_LitWithinBias ==
  pc = "shaded" =>
    IF fragment.depth <= fragment.sampled + Bias(fragment.shader)
      THEN fragment.light > 0
      ELSE fragment.light = 0

\* C17: a fragment deeper than the sample plus the bias gets no sun light
\* whatever its normal; one that is not deeper keeps the Lambert term of the
\* vertex stage, which is 0 for a face turned away from the sun; the map
\* shader then adds its point lights.  For a face towards the sun without
\* point light: lit exactly when depth <= sampled + bias, and with the map
\* shader sampled + 0.0006 is fully lit and sampled + 0.0008 is unlit.
C17_SunTermWithinBias ==
  pc = "shaded" =>
    LET f == fragment
        within == f.depth <= f.sampled + (IF f.shader = "mesh" THEN 100 ELSE 70)
        facing == -2 * f.normal[1] + 3 * f.normal[2] - 2 * f.normal[3] > 0
    IN /\ f.depth = (f.ndcZ + 100000) \div 2
       /\ ~within => f.sun = 0
       /\ within => f.sun = f.lightDot
       /\ facing <=> f.lightDot > 0
       /\ f.shader # "mesh" /\ facing => f.lightDot = 1000
       /\ f.light = IF f.shader = "map" THEN Min(1000, f.sun + f.pointValue) ELSE f.sun
       /\ facing /\ f.pointValue = 0 => (f.light > 0 <=> within)
       /\ f.shader = "map" /\ facing /\ f.pointValue = 0 =>
            /\ f.depth = f.sampled + 60 => f.light = 1000
            /\ f.depth = f.sampled + 80 => f.light = 0

\* a map fragment on a floor (facing the sun), 0.0006 behind the sample, is
\* lit
C17_Witness ==
  /\ pc = "shaded" /\ fragment.shader = "map"
  /\ fragment.normal = <<0, 1000, 0>> /\ fragment.pointValue = 0
  /\ fragment.depth = fragment.sampled + 60 /\ fragment.light = 1000

(***************************************************************************)
(* MapReader.parse over bounded map files                                  *)
(***************************************************************************)
\* the cell records of the files: walls of both textures, and plain, door
\* and stair cells with every floor/ceiling mask
WallRecords == {<<0, id>> : id \in {0, 1}}
OpenRecord(type, mask) ==
  <<type, mask>> \o (IF mask % 2 = 1 THEN <<1>> ELSE <<>>)
                 \o (IF mask \div 2 = 1 THEN <<0>> ELSE <<>>)
                 \o <<3>> \o (IF type = -1 THEN <<>> ELSE <<IF type = 2 THEN 0 ELSE 1>>)
CellRecords == WallRecords \cup {OpenRecord(type, mask) : type \in {-1, 2, 3}, mask \in 0..3}

\* a map of 1 x 1 cells whose two lowest floors are given and the rest
\* empty, or a map of 2 x 1 cells with data on its fourth floor
MapFiles ==
  {[width |-> 1, height |-> 1, data |-> <<2>> \o r1 \o r2 \o <<-6>>,
    textures |-> <<"brick", "grass">>, doors |-> <<"door1">>] :
     r1 \in CellRecords, r2 \in CellRecords}
  \cup
  {[width |-> 2, height |-> 1, data |-> <<-6, 2>> \o r1 \o r2 \o <<-8>>,
    textures |-> <<"brick", "grass">>, doors |-> <<"door1">>] :
     r1 \in CellRecords, r2 \in CellRecords}

InitParse ==
  /\ EngineIdle /\ SpritesIdle /\ PlayerIdle /\ InputIdle /\ GpuIdle /\ UnitsIdle
  /\ mapFile \in MapFiles
  /\ cells = <<>> /\ entities = <<>> /\ colliders = <<>> /\ mesh = NoMesh
  /\ pc = "file"

\* Resources.load returns what MapReader.parse made of the file
Parse ==
  /\ pc = "file"
  /\ LET data == parse(mapFile)
     IN cells' = data.map /\ entities' = data.entities
  /\ pc' = "parsed"
  /\ UNCHANGED <<engineVars, spriteVars, colliders, mesh, playerVars, inputVars, gpuVars,
                 mapFile, unitVars>>

NextParse == Parse

SpecParse == InitParse /\ [][NextParse]_vars

(***************************************************************************)
(* Walls against floors and ceilings (C19)                                 *)
(***************************************************************************)
ParsedCells ==
  {cells[fl][y][x] : fl \in DOMAIN cells, y \in 0..(mapFile.height - 1),
                     x \in 0..(mapFile.width - 1)}

\* C19 as stated: each cell has a wall texture, or a floor and/or ceiling
\* texture, and exactly one of the two.
C19_WallXorFloorCeil ==
  pc = "parsed" =>
    \A c \in ParsedCells : (c.wall # Null) <=> ~(c.floor # Null \/ c.ceil # Null)

\* C19: a cell with a wall texture has neither floor nor ceiling texture; a
\* cell without one has a floor, a ceiling, both or neither, as its record
\* says, and the cells of an empty span have none of the three.
C19_WallExcludesFloorCeil ==
  pc = "parsed" =>
    LET w == mapFile.width
        h == mapFile.height
        temp == Decode(mapFile.data, 1, w * h * 8, <<>>)
    IN /\ DOMAIN cells = 0..7
       /\ \A c \in ParsedCells : c.wall # Null => c.floor = Null /\ c.ceil = Null
       /\ \A fl \in 0..7, y \in 0..(h - 1), x \in 0..(w - 1) :
            LET c == cells[fl][y][x]
                t == temp[(fl * h + y) * w + x + 1]
            IN /\ c.wall # Null <=> t.type = 0
               /\ t.type # 0 => /\ c.floor # Null <=> t.hasFloor
                                /\ c.ceil # Null <=> t.hasCeil
       /\ \E c \in ParsedCells : c.wall = Null /\ c.floor = Null /\ c.ceil = Null

\* a parsed map with a wall cell, a cell with floor and ceiling, and empty
\* cells
C19_Witness ==
  /\ pc = "parsed"
  /\ \E c \in ParsedCells : c.wall = "grass"
  /\ \E c \in ParsedCells : c.wall = Null /\ c.floor = "grass" /\ c.ceil = "brick"
  /\ \E c \in ParsedCells : c.wall = Null /\ c.floor = Null /\ c.ceil = Null
  /\ entities = <<>>

(***************************************************************************)
(* Sprites.load and the colliders of the sprites over bounded templates    *)
(***************************************************************************)
\* templates without mesh frame, with a mesh frame of a loaded model, and
\* with a mesh frame of a model Resources.load does not load
ColliderFrames ==
  { <<Frame("tree1", 2), Frame("tree2", 1)>>,
    <<Frame("ghost", 1)>>,
    <<Frame("car.s3d", 1)>>,
    <<Frame("tree1", 1), Frame("car.s3d", 2)>>,
    <<Frame("bus.s3d", 1)>>,
    <<Frame("tree1", 1), Frame("bus.s3d", 2)>> }
ColliderScales == {50, 100}

\* the sprite template of an entry has geometry: a mesh frame whose model
\* is loaded
HasGeometry(def) ==
  \E j \in 1..Len(def.frames) : def.frames[j].mesh /\ def.frames[j].name \in DOMAIN Models

InitColliders ==
  /\ EngineIdle /\ PlayerIdle /\ InputIdle /\ mapFile = NoFile /\ UnitsIdle /\ GpuIdle
  /\ templates = <<>> /\ lit = <<>> /\ queries = <<>> /\ vao = <<>>
  /\ billboardCount = 0 /\ lastReads = {} /\ lastDraw = <<>> /\ litBefore = <<>>
  /\ \E frs \in ColliderFrames : \E sc \in ColliderScales : defs = <<Def(sc, frs)>>
  /\ cells = YardCells
  /\ \E x \in 1..3 : \E z \in 1..2 : \E side \in 0..3 :
       entities = <<Ent("Sprite", x, 0, z, side, 1), Ent("Door", 3, 0, 1, 1, "door1")>>
  /\ colliders = <<>>
  /\ mesh = NoMesh
  /\ pc = "entries"

\* Sprites.load: the templates, and one collider per sprite entity; the
\* call rejects when generateCollider throws
SpritesLoad ==
  /\ pc = "entries"
  /\ LET sc == SpriteColliders(defs, Entries(entities), 1, colliders)
     IN /\ colliders' = sc.boxes
        /\ pc' = IF sc.throws THEN "threw" ELSE "loaded"
        /\ templates' = IF sc.throws THEN templates
                        ELSE [i \in DOMAIN defs |->
                                [currentFrame |-> 0, frameTime |-> defs[i].frames[1].delay]]
  /\ UNCHANGED <<engineVars, defs, lit, queries, vao, billboardCount, lastReads, lastDraw,
                 litBefore, cells, entities, mesh, playerVars, inputVars, mapFile, unitVars, gpuVars>>

NextColliders == SpritesLoad

SpecColliders == InitColliders /\ [][NextColliders]_vars

\* the small fixed box at the position of entry k
DefaultBox(ens, k) ==
  Box(<<ens[k].x * Unit, ens[k].y * Unit, ens[k].z * Unit>>, <<1400, Unit, 1400>>)

\* C24 as stated: computing the collider of a sprite entity never fails,
\* and an entity whose template has no matching geometry (no mesh frame, or
\* a mesh frame whose model is not loaded) gets the default box of
\* 0.14 x 1 x 0.14 at its position.
C24_DefaultBoxWithoutGeometry ==
  pc # "entries" =>
    /\ pc = "loaded"
    /\ \A k \in 1..Len(Entries(entities)) :
         ~HasGeometry(defs[Entries(entities)[k].id])
         => colliders[k] = DefaultBox(Entries(entities), k)

\* the part of C24 that holds: a template without any mesh frame gets the
\* default box, and a template whose first mesh frame names a loaded model
\* gets the box of that model
C24_DefaultBoxWithoutMeshFrame ==
  pc # "entries" =>
    \A k \in 1..Len(Entries(entities)) :
      LET def == defs[Entries(entities)[k].id]
      IN /\ (\A j \in 1..Len(def.frames) : ~def.frames[j].mesh)
              => pc = "loaded" /\ colliders[k] = DefaultBox(Entries(entities), k)
         /\ HasGeometry(def) => pc = "loaded" /\ colliders[k] # DefaultBox(Entries(entities), k)

(***************************************************************************)
(* The Camera under calls of its setters and of bindMatrices               *)
(***************************************************************************)
\* the origin, the player's spawn, and places within and beyond the epsilon
\* of gl-matrix of them
CamPositions ==
  { <<0, 0, 0>>, <<0, 0, 1>>, <<13 * CamOne, 4 * CamOne, 19 * CamOne>>,
    <<13 * CamOne + 10, 4 * CamOne, 19 * CamOne>>,
    <<13 * CamOne + 20, 4 * CamOne, 19 * CamOne>> }
\* yaws of whole quarter turns
CamRotations == {<<0, 0, 0>>, <<0, Quarter, 0>>, <<0, 2 * Quarter, 0>>, <<0, -Quarter, 0>>}

InitCamera ==
  /\ EngineIdle /\ SpritesIdle /\ PlayerIdle /\ InputIdle /\ GpuIdle /\ UnitsIdle
  /\ mapFile = NoFile
  /\ cells = <<>> /\ entities = <<>> /\ colliders = <<>> /\ mesh = NoMesh
  /\ pc = "camera"

\* Player.update: "Camera.position = [...]"
SetPosition ==
  /\ pc = "camera"
  /\ \E v \in CamPositions :
       /\ camera' = setPosition(camera, v)
       /\ lastCamera' = [lastCamera EXCEPT !.op = "position", !.value = v,
                                           !.recomputed = FALSE,
                                           !.changed = lastCamera.changed \/ v # camera.pos]
  /\ UNCHANGED <<engineVars, spriteVars, worldVars, playerVars, inputVars, gpuVars, zoneVars,
                 glState, sound, mapFile, pc>>

\* Player.update: "Camera.rotation = [...]"
SetRotation ==
  /\ pc = "camera"
  /\ \E v \in CamRotations :
       /\ camera' = setRotation(camera, v)
       /\ lastCamera' = [lastCamera EXCEPT !.op = "rotation", !.value = v,
                                           !.recomputed = FALSE,
                                           !.changed = lastCamera.changed \/ v # camera.rot]
  /\ UNCHANGED <<engineVars, spriteVars, worldVars, playerVars, inputVars, gpuVars, zoneVars,
                 glState, sound, mapFile, pc>>

\* Engine.render: Camera.bindMatrices, i.e. updateMatrices and then
\* Shader.updateCamera(viewMatrix, projMatrix)
BindMatrices ==
  /\ pc = "camera"
  /\ LET u == updateMatrices(camera)
     IN /\ camera' = u.camera
        /\ lastCamera' = [lastCamera EXCEPT !.op = "bind", !.value = <<0, 0, 0>>,
                                            !.recomputed = u.recomputed,
                                            !.bound = u.camera.viewMatrix,
                                            !.fresh = lastCamera.fresh /\ ~u.recomputed,
                                            !.changed = lastCamera.changed /\ ~u.recomputed]
  /\ UNCHANGED <<engineVars, spriteVars, worldVars, playerVars, inputVars, gpuVars, zoneVars,
                 glState, sound, mapFile, pc>>

NextCamera == SetPosition \/ SetRotation \/ BindMatrices

SpecCamera == InitCamera /\ [][NextCamera]_vars

\* m takes the camera's own frame (its position, and the points one ahead
\* on each of its axes) back to the origin and the unit axes: m is the
\* inverse of the transform of position pos and rotation rot
IsInverseOf(m, pos, rot) ==
  \A e \in {<<0, 0, 0>>, <<CamOne, 0, 0>>, <<0, CamOne, 0>>, <<0, 0, CamOne>>} :
    Transform(m, Transform(fromRotationTranslation(rot, pos), e)) = e

\* after every bindMatrices the flag is clear and the view matrix, which
\* the shaders get, is the inverse transform of position and rotation
BoundViewIsInverse ==
  lastCamera'.op = "bind"
  => /\ ~camera'.matrixDirty
     /\ IsInverseOf(camera'.viewMatrix, camera'.pos, camera'.rot)
     /\ lastCamera'.bound = camera'.viewMatrix

\* a setter given the stored value changes nothing
SameValueKeepsClean ==
  /\ (lastCamera'.op = "position" /\ lastCamera'.value = camera.pos) => camera' = camera
  /\ (lastCamera'.op = "rotation" /\ lastCamera'.value = camera.rot) => camera' = camera

\* C25 as stated: the view matrix is recomputed only inside bindMatrices
\* and only when position or rotation was set to a different value since
\* the last recomputation; after every bindMatrices the flag is clear and
\* the view matrix is the inverse transform of position and rotation;
\* setting position or rotation to its current value does not mark the
\* camera dirty.
C25_RecomputedOnlyAfterChange ==
  [][/\ camera'.viewMatrix # camera.viewMatrix => lastCamera'.op = "bind"
     /\ lastCamera'.recomputed => lastCamera'.op = "bind" /\ lastCamera.changed
     /\ BoundViewIsInverse
     /\ SameValueKeepsClean]_vars

\* C25: the view matrix is recomputed only inside bindMatrices and exactly
\* when the dirty flag is set: at the first bindMatrices, as the flag starts
\* set whether or not a setter was called, and after a setter was given a
\* value that differs from the stored one by more than the epsilon of
\* gl-matrix (a value within the epsilon is dropped: it is not stored and
\* marks nothing).  After every bindMatrices the flag is clear and the view
\* matrix is the inverse transform of the stored position and rotation;
\* setting position or rotation to its stored value does not mark the
\* camera dirty.
C25_RecomputedWhenDirty ==
  [][/\ camera'.viewMatrix # camera.viewMatrix => lastCamera'.op = "bind"
     /\ lastCamera'.recomputed <=> (lastCamera'.op = "bind" /\ camera.matrixDirty)
     /\ lastCamera'.recomputed => lastCamera.fresh \/ lastCamera.changed
     /\ BoundViewIsInverse
     /\ SameValueKeepsClean
     /\ lastCamera'.op = "position" =>
          IF vec3equals(camera.pos, lastCamera'.value)
            THEN camera' = camera
            ELSE camera'.pos = lastCamera'.value /\ camera'.matrixDirty
     /\ lastCamera'.op = "rotation" =>
          IF vec3equals(camera.rot, lastCamera'.value)
            THEN camera' = camera
            ELSE camera'.rot = lastCamera'.value /\ camera'.matrixDirty]_vars

\* a bindMatrices has recomputed the view matrix of a camera that was
\* moved and turned
C25_Witness ==
  /\ lastCamera.op = "bind" /\ lastCamera.recomputed /\ ~lastCamera.fresh
  /\ camera.pos[1] > CamOne /\ camera.rot[2] = Quarter
  /\ camera.viewMatrix # Identity /\ ~camera.matrixDirty

(***************************************************************************)
(* Zones under updates of a moving player                                  *)
(***************************************************************************)
\* places of the player: the spawn, places at and just off the borders of
\* the zones of the credits, and places on each of their floors
ZonePlaces ==
  { <<13 * Unit, 4 * Unit, 19 * Unit>>,
    <<14 * Unit - Half, 4 * Unit, 19 * Unit>>,
    <<14 * Unit - Half - 1, 4 * Unit, 19 * Unit>>,
    <<16 * Unit, 4 * Unit, 20 * Unit + Half - 1>>,
    <<16 * Unit, 4 * Unit, 20 * Unit + Half>>,
    <<16 * Unit, 3 * Unit, 19 * Unit>>,
    <<16 * Unit, 2 * Unit, 19 * Unit>>,
    <<13 * Unit, 0, 22 * Unit>>,
    <<16 * Unit, 0, 19 * Unit>> }

InitZones ==
  /\ EngineIdle /\ SpritesIdle /\ PlayerIdle /\ InputIdle /\ GpuIdle /\ UnitsIdle
  /\ mapFile = NoFile
  /\ cells = <<>> /\ entities = <<>> /\ colliders = <<>> /\ mesh = NoMesh
  /\ pc = "unmounted"

\* the effect of the Credits component: its three zones are added
CreditsMount ==
  /\ pc = "unmounted"
  /\ pc' = "mounted"
  /\ zones' = CreditsZones(zones)
  /\ zoneCalls' = zoneCalls \o <<NoCalls, NoCalls, NoCalls>>
  /\ UNCHANGED <<engineVars, spriteVars, worldVars, playerVars, inputVars, gpuVars,
                 cameraVars, glState, sound, mapFile>>

\* Player.update has moved the player and calls Zones.update(this.position)
ZonesUpdate ==
  /\ pc \in {"unmounted", "mounted"}
  /\ \E place \in ZonePlaces :
       /\ position' = place
       /\ LET u == zonesUpdate(zones, place)
          IN /\ zones' = [k \in 1..Len(zones) |-> u[k].zone]
             /\ zoneCalls' = [k \in 1..Len(zones) |->
                                [ran |-> u[k].ran,
                                 latest |-> IF u[k].ran = <<>> THEN zoneCalls[k].latest
                                            ELSE u[k].ran[Len(u[k].ran)]]]
  /\ UNCHANGED <<engineVars, spriteVars, worldVars, speed, angleX, angleY, crashed, stepVars,
                 inputVars, gpuVars, cameraVars, glState, sound, mapFile, pc>>

NextZones == CreditsMount \/ ZonesUpdate

SpecZones == InitZones /\ [][NextZones]_vars

\* the player's rounded cell lies in [start, end] of the zone on all axes
Contains(zn, at) ==
  /\ zn.start[1] <= CellOf(at[1]) /\ CellOf(at[1]) <= zn.end[1]
  /\ zn.start[2] <= CellOf(at[2]) /\ CellOf(at[2]) <= zn.end[2]
  /\ zn.start[3] <= CellOf(at[3]) /\ CellOf(at[3]) <= zn.end[3]

\* a Zones.update has run
UpdatedZones == pc' = pc /\ Len(zones') = Len(zones)

\* C28: after each Zones.update the active flag of every zone equals
\* whether the player's rounded cell lies inside [start, end] on all three
\* axes; the update runs one callback of a zone when its containment has
\* changed since the update before (or since the zone was added, outside)
\* and none otherwise, onEnter when the player is now inside and onLeave
\* when now outside, so the callbacks of a zone alternate, the first being
\* onEnter.
C28_ZoneCallbacksAlternate ==
  [][UpdatedZones =>
       \A k \in 1..Len(zones) :
         /\ zones'[k].active = Contains(zones[k], position')
         /\ zoneCalls'[k].ran =
              (IF Contains(zones[k], position') = zones[k].active THEN <<>>
               ELSE IF Contains(zones[k], position') THEN <<"onEnter">> ELSE <<"onLeave">>)
         /\ zoneCalls'[k].ran # <<>> =>
              /\ zoneCalls'[k].ran[1] # zoneCalls[k].latest
              /\ zoneCalls[k].latest = "none" => zoneCalls'[k].ran[1] = "onEnter"]_vars

\* the player has left a zone it had entered, while inside another
C28_Witness ==
  /\ pc = "mounted"
  /\ \E k \in 1..Len(zones) :
       zoneCalls[k].ran = <<"onLeave">> /\ ~zones[k].active
  /\ \E k \in 1..Len(zones) :
       zoneCalls[k].ran = <<"onEnter">> /\ zones[k].active

====
